---- MODULE Spec2Model ----
(***************************************************************************)
(* The orchestration core of bob-code: CodeAgent.chat / stream_chat        *)
(* (src/agent/core.py), ToolExecutor (src/tools/executor.py), ToolRegistry *)
(* (src/tools/registry.py) and SubagentFactory (src/agent/subagent.py).    *)
(*                                                                         *)
(* One agent instance is modelled.  Its configuration is fixed by Init,    *)
(* which ranges over the constructions the code offers: the TUI's agent,   *)
(* the two SubagentFactory profiles and CodeAgent's constructor defaults.  *)
(* An action runs the code from one await to the next: asyncio is          *)
(* single-threaded and cooperative, so nothing interleaves in between.     *)
(*                                                                         *)
(* Nine specifications share the variables:                                *)
(*   Spec      the agent alone, its tools taken as opaque coroutines;      *)
(*   TuiSpec   the agent inside CodeAgentTUI (src/cli/interface.py): the   *)
(*             Enter key, handle_command, and the slash_command tool,      *)
(*             whose handler runs handle_command inside a tool batch;      *)
(*   TaskSpec  one TaskTool.execute (src/tools/implementations/task.py),   *)
(*             the agent being the subagent it constructs and runs;        *)
(*   RegistrySpec     a ToolRegistry on its own: sequences of register;    *)
(*   InteractiveSpec  executions of the four interactive tools (ask.py,    *)
(*             plan_mode.py, exit_plan_mode.py, slash_command.py), each    *)
(*             constructed with or without its host callback.              *)
(*   ClearSpec        Spec with CodeAgent.clear_history between turns;     *)
(*   WaitingSpec      one batch of tool calls that wait in the TUI for a   *)
(*             line of the user, and the lines process_input is given;     *)
(*   CapSpec   one TaskTool.execute whose subagent runs up to the          *)
(*             iteration cap SubagentFactory gave it;                      *)
(*   SettingsSpec     the TUI started on a workspace settings file, with   *)
(*             /enable and /disable between the turns.                     *)
(***************************************************************************)
EXTENDS Integers, Sequences, FiniteSets, TLC

VARIABLES
    kind,                  \* which construction built the agent
    tool_registry,         \* ToolRegistry._tools: tool names in insertion order
    has_registry,          \* CodeAgent.tool_registry is not None
    permissions,           \* ToolExecutor.permissions (a ToolPermissions)
    has_executor,          \* CodeAgent.tool_executor is not None
    is_subagent,           \* CodeAgent.is_subagent
    on_conversation_update,\* the callback is set
    on_tool_call,          \* the callback is set
    conversation_history,  \* CodeAgent.conversation_history
    pc,                    \* where the in-flight chat / stream_chat awaits
    iteration,             \* chat's local `iteration`
    max_iterations,        \* chat's parameter
    slots,                 \* one entry per coroutine of the gather in flight
    completion,            \* positions of the batch in order of completion
    tool_results,          \* what execute_tool_calls returned last
    tool_call_events,      \* on_tool_call invocations of the current chat
    full_response,         \* stream_chat's local accumulator
    yielded,               \* fragments stream_chat forwarded to its caller
    outcome,               \* how the last chat / stream_chat ended
    raise_cause,           \* what the raised exception came from
    result,                \* the string chat returned last
    provider_calls,        \* provider.generate calls of the current chat
    updates,               \* number of on_conversation_update invocations
    saved,                 \* the history the callback received last
    returns,               \* chat returns plus completed stream_chats
    turns,                 \* chat / stream_chat invocations so far
    granted,               \* provider calls the turns so far were allowed
    start_len,             \* length of the history when the turn started
    \* CodeAgentTUI
    second_pc,             \* where a chat that overlaps the first one awaits
    second_slot,           \* the batch position whose /init started it, or 0
    seen,                  \* per batch position: the permissions its check read
    batch_permissions,     \* the permissions when execute_tool_calls was called
    keys,                  \* Enter presses handled while a chat was in flight
    \* TaskTool.execute
    task_pc,               \* where execute is
    task,                  \* the TaskTool's fields and execute's arguments
    events,                \* on_subagent_event invocations before / after chat
    task_result,           \* the text execute returned
    providers_built,       \* provider_factory calls
    subagents_built,       \* agents SubagentFactory constructed
    parent,                \* the calling agent's history, registry, permissions
    \* the interactive tools and the registry, executed on their own
    wired,                 \* the interactive tools constructed with a callback
    is_in_plan_mode,       \* CodeAgentTUI.is_in_plan_mode
    tool_pc,               \* where the tool execution in flight awaits
    tool_request,          \* the tool and the argument of the last execute
    tool_out,              \* how the last execute ended, and with what text
    invoked,               \* the host callback invocations of the last execute
    executions,            \* execute calls so far
    registered,            \* the tools passed to ToolRegistry.register, in order
    \* CodeAgentTUI: the requests that wait for a line of the user
    pending_question_event,   \* index of the Event the TUI holds, 0 for None
    pending_question_answer,  \* <<>> for None, or <<the line>>
    question_events,       \* the asyncio.Events created so far: is it set
    waiters,               \* the coroutines that await an Event each
    lines,                 \* the lines the user submitted, and where they went
    settings               \* WorkspaceConfig: the content of .bob/settings.json

config_vars == <<kind, tool_registry, has_registry, permissions, has_executor,
                 is_subagent, on_conversation_update, on_tool_call>>
batch_vars == <<slots, completion, tool_results>>
stream_vars == <<full_response, yielded>>
host_vars == <<second_pc, second_slot, seen, batch_permissions, keys>>
task_vars == <<task_pc, task, events, task_result, providers_built,
               subagents_built, parent>>
wait_vars == <<pending_question_event, pending_question_answer,
               question_events, waiters, lines>>
tool_vars == <<wired, is_in_plan_mode, tool_pc, tool_request, tool_out, invoked,
               executions, registered, wait_vars, settings>>
ext_vars == <<host_vars, task_vars, tool_vars>>
\* what an interactive tool and its callback leave alone
agent_vars == <<config_vars, conversation_history, pc, iteration,
                max_iterations, batch_vars, tool_call_events, stream_vars,
                outcome, raise_cause, result, provider_calls, updates, saved,
                returns, turns, granted, start_len, host_vars, task_vars,
                registered, wait_vars, settings>>
vars == <<config_vars, conversation_history, pc, iteration, max_iterations,
          batch_vars, tool_call_events, stream_vars, outcome, raise_cause,
          result, provider_calls, updates, saved, returns, turns, granted,
          start_len, ext_vars>>

----------------------------------------------------------------------------
(* Bounds of the model *)

\* largest max_iterations a chat is called with, and the cap on the provider
\* calls the turns of one behaviour may make together (a chat counts with
\* its max_iterations, a stream_chat with one)
MaxIter == 2
\* largest number of tool calls in one provider response
MaxBatch == 2
\* chat / stream_chat invocations in one behaviour
MaxTurns == 2
\* fragments of one provider stream
MaxChunks == 2
\* Enter presses in one behaviour besides those that start a first chat
MaxKeys == 1
\* register calls on one registry
MaxRegistered == 4
\* executions of interactive tools in one behaviour
MaxCalls == 3
\* tool calls of one batch that wait for a line of the user
MaxWaiting == 3
\* lines the user submits in one behaviour
MaxLines == 4
\* /enable and /disable commands in one behaviour
MaxCommands == 2

----------------------------------------------------------------------------
(* Message protocol: src/providers/models.py, src/tools/base.py *)

\* Python's None in a str | None field
None == "None"

FunctionCall(name, arguments) == [name |-> name, arguments |-> arguments]

ToolCall(id, name, arguments) ==
    [id |-> id, function |-> FunctionCall(name, arguments)]

\* tool_calls = <<>> stands for both None and [] : chat only tests truthiness
Message(role, content, tool_calls, tool_call_id, name) ==
    [role |-> role, content |-> content, tool_calls |-> tool_calls,
     tool_call_id |-> tool_call_id, name |-> name]

UserMessage(text) == Message("user", text, <<>>, None, None)

AssistantMessage(content, tool_calls) ==
    Message("assistant", content, tool_calls, None, None)

ToolResult(tool_call_id, tool_name, content, is_error) ==
    [tool_call_id |-> tool_call_id, tool_name |-> tool_name,
     content |-> content, is_error |-> is_error]

ToolPermissions(file, shell, network) ==
    [allow_file_operations |-> file, allow_shell_commands |-> shell,
     allow_network_access |-> network]

----------------------------------------------------------------------------
(* Tool capabilities: src/tools/implementations/*.py *)

\* a tool object: its name, its required_permission and what tells two
\* instances of one class apart (BashTool's timeout)
Tool(name, required_permission, timeout) ==
    [name |-> name, required_permission |-> required_permission,
     timeout |-> timeout]

ReadTool == Tool("read", "allow_file_operations", 0)
WriteTool == Tool("write", "allow_file_operations", 0)
EditTool == Tool("edit", "allow_file_operations", 0)
BashTool(timeout) == Tool("bash", "allow_shell_commands", timeout)
AskUserQuestionTool == Tool("ask_user_question", None, 0)
SlashCommandTool == Tool("slash_command", None, 0)
EnterPlanModeTool == Tool("enter_plan_mode", None, 0)
ExitPlanModeTool == Tool("exit_plan_mode", None, 0)
TaskTool == Tool("task", None, 0)

\* what ToolRegistry.get returns for a name that is not registered
NoTool == Tool(None, None, 0)

----------------------------------------------------------------------------
(* ToolRegistry: src/tools/registry.py.  A dict keeps its keys in order of *)
(* first insertion; assigning to a key that exists replaces the value.     *)

\* mutant: an overwritten name moves to the end of the listing
register_MoveToEnd(reg, tool) ==
    Append(SelectSeq(reg, LAMBDA r : r.name # tool.name), tool)

\* ToolRegistry.register: self._tools[tool.name] = tool; a dict keeps a
\* key that is assigned again at the position of its first insertion
register(reg, tool) ==
    IF \E i \in 1..Len(reg) : reg[i].name = tool.name
    THEN [i \in 1..Len(reg) |->
            IF reg[i].name = tool.name THEN tool ELSE reg[i]]
    ELSE Append(reg, tool)

\* mutant: the name task is known to every registry
get_TaskEverywhere(reg, name) ==
    IF name = "task" THEN TaskTool
    ELSE IF \E i \in 1..Len(reg) : reg[i].name = name
    THEN reg[CHOOSE i \in 1..Len(reg) : reg[i].name = name]
    ELSE NoTool

\* ToolRegistry.get: self._tools.get(name)
get(reg, name) ==
    IF \E i \in 1..Len(reg) : reg[i].name = name
    THEN reg[CHOOSE i \in 1..Len(reg) : reg[i].name = name]
    ELSE NoTool

ToolNames(reg) == {reg[i].name : i \in 1..Len(reg)}

\* BaseTool.to_definition, reduced to what identifies the definition
to_definition(tool) == [type |-> "function", name |-> tool.name]

\* ToolRegistry.get_definitions: one definition per value of the dict
get_definitions(reg) == [i \in 1..Len(reg) |-> to_definition(reg[i])]

----------------------------------------------------------------------------
(* The constructions of an agent *)

\* what CodeAgent.__init__ derives: the executor exists iff a registry and
\* a ToolPermissions were both passed (both objects are truthy)
CodeAgent(k, reg, with_registry, perms, with_permissions, update_cb, tool_cb, subagent) ==
    [kind |-> k, tool_registry |-> reg, has_registry |-> with_registry,
     permissions |-> perms,
     has_executor |-> with_registry /\ with_permissions,
     on_conversation_update |-> update_cb, on_tool_call |-> tool_cb,
     is_subagent |-> subagent]

\* mutant: the explore profile also registers the write tool
_create_explore_agent_WithWrite ==
    [agent |-> CodeAgent("explore",
                         register(register(register(<<>>, ReadTool),
                                           BashTool(10)), WriteTool),
                         TRUE, ToolPermissions(TRUE, TRUE, FALSE), TRUE,
                         FALSE, TRUE, TRUE),
     max_iterations |-> 5]

\* SubagentFactory._create_explore_agent
_create_explore_agent ==
    [agent |-> CodeAgent("explore",
                         register(register(<<>>, ReadTool), BashTool(10)),
                         TRUE, ToolPermissions(TRUE, TRUE, FALSE), TRUE,
                         FALSE, TRUE, TRUE),
     max_iterations |-> 5]

\* mutant: the plan profile also registers the task tool
_create_plan_agent_WithTask ==
    [agent |-> CodeAgent("plan",
                         register(register(register(register(register(<<>>,
                             ReadTool), WriteTool), BashTool(30)), EditTool),
                             TaskTool),
                         TRUE, ToolPermissions(TRUE, TRUE, FALSE), TRUE,
                         FALSE, TRUE, TRUE),
     max_iterations |-> 15]

\* SubagentFactory._create_plan_agent
_create_plan_agent ==
    [agent |-> CodeAgent("plan",
                         register(register(register(register(<<>>,
                             ReadTool), WriteTool), BashTool(30)), EditTool),
                         TRUE, ToolPermissions(TRUE, TRUE, FALSE), TRUE,
                         FALSE, TRUE, TRUE),
     max_iterations |-> 15]

\* no CodeAgent was constructed
NoAgent ==
    CodeAgent("none", <<>>, FALSE, ToolPermissions(FALSE, FALSE, FALSE),
              FALSE, FALSE, FALSE, FALSE)

\* raise ValueError("Unknown subagent type"): the caller gets no agent
ValueError == [agent |-> NoAgent, max_iterations |-> 0]

\* mutant: every other kind is taken for plan
create_subagent_Fallback(subagent_type) ==
    IF subagent_type = "explore" THEN _create_explore_agent
    ELSE _create_plan_agent

\* SubagentFactory.create_subagent
create_subagent(subagent_type) ==
    IF subagent_type = "explore" THEN _create_explore_agent
    ELSE IF subagent_type = "plan" THEN _create_plan_agent
    ELSE ValueError

SubagentKinds == {"explore", "plan"}

\* the registry CodeAgentTUI.__init__ builds
TuiRegistry ==
    register(register(register(register(register(register(register(register(
    register(<<>>, ReadTool), WriteTool), BashTool(30)), EditTool),
    AskUserQuestionTool), SlashCommandTool), EnterPlanModeTool),
    ExitPlanModeTool), TaskTool)

\* the permissions the TUI loads from the workspace settings; the default
\* is ToolPermissions() with every flag false
SettingsPermissions ==
    {ToolPermissions(FALSE, s, FALSE) : s \in BOOLEAN}

\* CodeAgentTUI.__init__'s agent
TuiAgent(perms) ==
    CodeAgent("tui", TuiRegistry, TRUE, perms, TRUE, TRUE, TRUE, FALSE)

\* CodeAgent(provider, on_conversation_update=...) : no tools
BareAgent(update_cb) ==
    CodeAgent("bare", <<>>, FALSE, ToolPermissions(FALSE, FALSE, FALSE),
              FALSE, update_cb, FALSE, FALSE)

Agents ==
    {TuiAgent(p) : p \in SettingsPermissions}
        \cup {create_subagent(t).agent : t \in SubagentKinds}
        \cup {BareAgent(cb) : cb \in BOOLEAN}

----------------------------------------------------------------------------
(* What the provider can answer *)

\* argument strings a model can emit: a JSON object, text that is not JSON,
\* and JSON whose decoding fails with an exception that is not a
\* JSONDecodeError (an integer literal of more than 4300 digits raises
\* ValueError, nesting deeper than the recursion limit RecursionError)
ArgsObject == "{\"command\": \"ls\"}"
ArgsMalformed == "{\"command\": "
ArgsOverflow == "99999...(5000 digits)"

\* json.loads
json_loads(arguments) ==
    CASE arguments = ArgsMalformed -> "JSONDecodeError"
      [] arguments = ArgsOverflow -> "ValueError"
      [] OTHER -> "value"

\* the calls the provider picks from: a tool that needs a permission, a
\* tool that needs none (and that the subagent registries lack), and a name
\* no registry holds
RequestedCalls ==
    {FunctionCall("bash", a) : a \in {ArgsObject, ArgsMalformed, ArgsOverflow}}
        \cup {FunctionCall("task", ArgsObject), FunctionCall("grep", ArgsObject)}

\* ToolCall.id: opaque, here one per position of the response
CallIds == <<"call_1", "call_2", "call_3", "call_4">>

Batches ==
    UNION {[1..n -> RequestedCalls] : n \in 1..MaxBatch}

WithIds(fs) == [i \in 1..Len(fs) |-> [id |-> CallIds[i], function |-> fs[i]]]

\* Message.content of an assistant message
Contents == {None, "Found 2 files."}

\* provider.generate's return values: a final answer, or one that requests
\* tool calls
Responses ==
    {AssistantMessage(c, <<>>) : c \in Contents}
        \cup {AssistantMessage(None, WithIds(b)) : b \in Batches}

UserInputs == {"list files"}

\* fragments of provider.stream
Fragments == {"Found ", "2"}

----------------------------------------------------------------------------
(* ToolExecutor: src/tools/executor.py *)

\* mutant: the permission check lets every tool through
getattr_Granted(perms, name) == TRUE

\* getattr(self.permissions, name, False)
getattr(perms, name) == IF name \in DOMAIN perms THEN perms[name] ELSE FALSE

NoResult == ToolResult(None, None, None, FALSE)

\* one coroutine of the gather: its call, where it is, its ToolResult once
\* it has one, the steps of execute_tool_call it took, and whether
\* tool.execute raised
Slot(tool_call, state, res, trail, raised) ==
    [tool_call |-> tool_call, state |-> state, result |-> res,
     trail |-> trail, raised |-> raised]

\* mutant: the arguments are parsed before the permission is checked
execute_tool_call_ParseFirst(tool_call, registry, perms) ==
    LET tool_name == tool_call.function.name
        tool == get(registry, tool_name)
        args == json_loads(tool_call.function.arguments)
        Failed(text, trail) ==
            Slot(tool_call, "done",
                 ToolResult(tool_call.id, tool_name, text, TRUE), trail, FALSE)
    IN  IF tool = NoTool
        THEN Failed("Error: Unknown tool", <<"lookup">>)
        ELSE IF args = "JSONDecodeError"
        THEN Failed("Error: Invalid JSON arguments", <<"lookup", "parse">>)
        ELSE IF args = "ValueError"
        THEN Slot(tool_call, "raised", NoResult, <<"lookup", "parse">>, FALSE)
        ELSE IF tool.required_permission # None
                /\ ~getattr(perms, tool.required_permission)
        THEN Failed("Error: Permission denied",
                    <<"lookup", "parse", "permission">>)
        ELSE Slot(tool_call, "running", NoResult,
                  <<"lookup", "parse", "permission", "execute">>, FALSE)

\* execute_tool_call from its start to its first await (tool.execute): the
\* lookup, the permission check and the parse run without suspension
execute_tool_call(tool_call, registry, perms) ==
    LET tool_name == tool_call.function.name
        tool == get(registry, tool_name)
        Failed(text, trail) ==
            Slot(tool_call, "done",
                 ToolResult(tool_call.id, tool_name, text, TRUE), trail, FALSE)
        Parse(trail) ==
            LET args == json_loads(tool_call.function.arguments)
                t == Append(trail, "parse")
            IN  CASE args = "JSONDecodeError" ->
                        Failed("Error: Invalid JSON arguments", t)
                  [] args = "ValueError" ->
                        Slot(tool_call, "raised", NoResult, t, FALSE)
                  [] OTHER ->
                        Slot(tool_call, "running", NoResult,
                             Append(t, "execute"), FALSE)
    IN  IF tool = NoTool
        THEN Failed("Error: Unknown tool", <<"lookup">>)
        ELSE IF tool.required_permission # None
        THEN IF ~getattr(perms, tool.required_permission)
             THEN Failed("Error: Permission denied",
                         <<"lookup", "permission">>)
             ELSE Parse(<<"lookup", "permission">>)
        ELSE Parse(<<"lookup">>)

\* the end of execute_tool_call: tool.execute returned text, or raised an
\* Exception that the except clause turns into a result
ExecuteReturned(slot, text) ==
    [slot EXCEPT !.state = "done",
                 !.result = ToolResult(slot.tool_call.id,
                                       slot.tool_call.function.name, text,
                                       FALSE)]

ExecuteRaised(slot) ==
    [slot EXCEPT !.state = "done", !.raised = TRUE,
                 !.result = ToolResult(slot.tool_call.id,
                                       slot.tool_call.function.name,
                                       "Error executing tool", TRUE)]

\* mutant: the results are collected as the coroutines finish
gather_AsCompleted(ss, order) == [i \in 1..Len(order) |-> ss[order[i]].result]

\* asyncio.gather(*[...]): the coroutines' results in the order of the
\* argument list, whatever order they finished in
gather(ss, order) == [i \in 1..Len(ss) |-> ss[i].result]

\* what a successful tool.execute can return
ToolOutputs == {"a.txt b.txt"}

----------------------------------------------------------------------------
(* CodeAgent: src/agent/core.py *)

Last(h) == h[Len(h)]

\* one tool-role message per result, in the order of the results
ToolMessages(results) ==
    [i \in 1..Len(results) |->
        Message("tool", results[i].content, <<>>, results[i].tool_call_id,
                results[i].tool_name)]

\* response.content or ""
ContentOrEmpty(content) == IF content = None THEN "" ELSE content

\* the fallback after the loop: the last entry's content
DegradedResponse(h) ==
    IF Len(h) > 0 THEN Last(h).content
    ELSE "Error: Max iterations reached without response"

\* an on_tool_call invocation: the calls, and the results or None
ToolCallEvent(calls, with_results, results) ==
    [calls |-> calls, with_results |-> with_results, results |-> results]

\* mutant: chat returns without the save callback
ChatReturns_NoCallback(final_response) ==
    /\ result' = final_response
    /\ outcome' = "returned"
    /\ returns' = returns + 1
    /\ pc' = "idle"
    /\ UNCHANGED <<updates, saved>>

\* the end of chat: the save callback, then the return
ChatReturns(final_response) ==
    /\ updates' = IF on_conversation_update THEN updates + 1 ELSE updates
    /\ saved' = IF on_conversation_update THEN conversation_history'
                ELSE saved
    /\ result' = final_response
    /\ outcome' = "returned"
    /\ returns' = returns + 1
    /\ pc' = "idle"

\* mutant: the failure is turned into the text chat returns
Raises_AsText(cause) ==
    /\ result' = "Error: provider call failed"
    /\ outcome' = "returned"
    /\ raise_cause' = cause
    /\ returns' = returns + 1
    /\ pc' = "idle"
    /\ UNCHANGED <<updates, saved>>

\* an exception leaves chat / stream_chat
Raises(cause) ==
    /\ outcome' = "raised"
    /\ raise_cause' = cause
    /\ pc' = "idle"
    /\ UNCHANGED <<result, updates, saved, returns>>

\* chat(user_input, max_iterations) up to its first await
ChatStart(user_input, k) ==
    /\ pc = "idle"
    /\ turns < MaxTurns
    /\ granted + k <= MaxIter
    /\ turns' = turns + 1
    /\ granted' = granted + k
    /\ conversation_history' =
            Append(conversation_history, UserMessage(user_input))
    /\ start_len' = Len(conversation_history)
    /\ max_iterations' = k
    /\ provider_calls' = 0
    /\ tool_call_events' = <<>>
    /\ raise_cause' = None
    /\ IF 0 < k
       THEN /\ iteration' = 1
            /\ pc' = "generate"
            /\ outcome' = "running"
            /\ UNCHANGED <<result, updates, saved, returns>>
       ELSE /\ iteration' = 0
            /\ ChatReturns(DegradedResponse(conversation_history'))
    /\ UNCHANGED <<config_vars, batch_vars, stream_vars>>
    /\ UNCHANGED ext_vars

\* mutant: a failed provider call takes the invocation's messages back
ProviderRaises_RollsBack ==
    /\ pc = "generate"
    /\ provider_calls' = provider_calls + 1
    /\ Raises("provider")
    /\ conversation_history' = SubSeq(conversation_history, 1, start_len)
    /\ UNCHANGED <<config_vars, iteration,
                   max_iterations, batch_vars, tool_call_events, stream_vars,
                   turns, granted, start_len>>
    /\ UNCHANGED ext_vars

\* provider.generate raises
ProviderRaises ==
    /\ pc = "generate"
    /\ provider_calls' = provider_calls + 1
    /\ Raises("provider")
    /\ UNCHANGED <<config_vars, conversation_history, iteration,
                   max_iterations, batch_vars, tool_call_events, stream_vars,
                   turns, granted, start_len>>
    /\ UNCHANGED ext_vars

\* provider.generate returns: the response is appended; with tool calls and
\* an executor the pre-execution notification is sent and the batch is
\* handed to execute_tool_calls, otherwise chat ends with this response
ProviderResponds(response) ==
    /\ pc = "generate"
    /\ provider_calls' = provider_calls + 1
    /\ conversation_history' = Append(conversation_history, response)
    /\ IF response.tool_calls # <<>> /\ has_executor
       THEN /\ tool_call_events' =
                    IF on_tool_call
                    THEN Append(tool_call_events,
                                ToolCallEvent(response.tool_calls, FALSE, <<>>))
                    ELSE tool_call_events
            /\ slots' = [i \in 1..Len(response.tool_calls) |->
                            execute_tool_call(response.tool_calls[i],
                                              tool_registry, permissions)]
            /\ completion' =
                    SelectSeq([i \in 1..Len(response.tool_calls) |-> i],
                              LAMBDA i : slots'[i].state = "done")
            /\ pc' = "executing"
            /\ UNCHANGED <<tool_results, outcome, raise_cause, result,
                           updates, saved, returns>>
       ELSE /\ ChatReturns(ContentOrEmpty(response.content))
            /\ UNCHANGED <<batch_vars, tool_call_events, raise_cause>>
    /\ UNCHANGED <<config_vars, iteration, max_iterations, stream_vars,
                   turns, granted, start_len>>
    /\ UNCHANGED ext_vars

\* tool.execute of the call at position i returns
ToolReturns(i, text) ==
    /\ pc = "executing"
    /\ i \in 1..Len(slots)
    /\ slots[i].state = "running"
    /\ slots' = [slots EXCEPT ![i] = ExecuteReturned(@, text)]
    /\ completion' = Append(completion, i)
    /\ UNCHANGED <<config_vars, conversation_history, pc, iteration,
                   max_iterations, tool_results, tool_call_events,
                   stream_vars, outcome, raise_cause, result, provider_calls,
                   updates, saved, returns, turns, granted, start_len>>
    /\ UNCHANGED ext_vars

\* tool.execute of the call at position i raises
ToolRaises(i) ==
    /\ pc = "executing"
    /\ i \in 1..Len(slots)
    /\ slots[i].state = "running"
    /\ slots' = [slots EXCEPT ![i] = ExecuteRaised(@)]
    /\ completion' = Append(completion, i)
    /\ UNCHANGED <<config_vars, conversation_history, pc, iteration,
                   max_iterations, tool_results, tool_call_events,
                   stream_vars, outcome, raise_cause, result, provider_calls,
                   updates, saved, returns, turns, granted, start_len>>
    /\ UNCHANGED ext_vars

\* a coroutine of the gather ended with an exception: gather re-raises it,
\* execute_tool_calls and chat let it pass
GatherRaises ==
    /\ pc = "executing"
    /\ \E i \in 1..Len(slots) : slots[i].state = "raised"
    /\ Raises("dispatch")
    /\ UNCHANGED <<config_vars, conversation_history, iteration,
                   max_iterations, batch_vars, tool_call_events, stream_vars,
                   provider_calls, turns, granted, start_len>>
    /\ UNCHANGED ext_vars

\* every coroutine of the gather has its result: execute_tool_calls
\* returns, the post-execution notification is sent, the tool messages are
\* appended, and the loop goes to the next provider call or runs out
BatchAppended ==
    /\ pc = "executing"
    /\ \A i \in 1..Len(slots) : slots[i].state = "done"
    /\ tool_results' = gather(slots, completion)
    /\ tool_call_events' =
            IF on_tool_call
            THEN Append(tool_call_events,
                        ToolCallEvent([i \in 1..Len(slots) |->
                                            slots[i].tool_call],
                                      TRUE, tool_results'))
            ELSE tool_call_events
    /\ conversation_history' =
            conversation_history \o ToolMessages(tool_results')
    /\ IF iteration < max_iterations
       THEN /\ iteration' = iteration + 1
            /\ pc' = "generate"
            /\ UNCHANGED <<outcome, result, updates, saved, returns>>
       ELSE /\ iteration' = iteration
            /\ ChatReturns(DegradedResponse(conversation_history'))
    /\ UNCHANGED <<config_vars, max_iterations, slots, completion,
                   stream_vars, raise_cause, provider_calls, turns, granted, start_len>>
    /\ UNCHANGED ext_vars

\* stream_chat(user_input) up to the provider's stream
StreamStart(user_input) ==
    /\ pc = "idle"
    /\ turns < MaxTurns
    /\ granted + 1 <= MaxIter
    /\ turns' = turns + 1
    /\ granted' = granted + 1
    /\ conversation_history' =
            Append(conversation_history, UserMessage(user_input))
    /\ start_len' = Len(conversation_history)
    /\ full_response' = ""
    /\ yielded' = <<>>
    /\ pc' = "streaming"
    /\ outcome' = "running"
    /\ raise_cause' = None
    /\ UNCHANGED <<config_vars, iteration, max_iterations, batch_vars,
                   tool_call_events, result, provider_calls, updates, saved,
                   returns>>
    /\ UNCHANGED ext_vars

\* mutant: the accumulator keeps the last fragment only
Accumulate_Last(full, content) == content

\* full_response += chunk.content
Accumulate(full, content) == full \o content

\* one fragment arrives and is forwarded
StreamChunk(content) ==
    /\ pc = "streaming"
    /\ Len(yielded) < MaxChunks
    /\ full_response' = Accumulate(full_response, content)
    /\ yielded' = Append(yielded, content)
    /\ UNCHANGED <<config_vars, conversation_history, pc, iteration,
                   max_iterations, batch_vars, tool_call_events, outcome,
                   raise_cause, result, provider_calls, updates, saved,
                   returns, turns, granted, start_len>>
    /\ UNCHANGED ext_vars

\* the stream ends: the response is appended and the save callback runs
StreamEnds ==
    /\ pc = "streaming"
    /\ conversation_history' =
            Append(conversation_history, AssistantMessage(full_response, <<>>))
    /\ updates' = IF on_conversation_update THEN updates + 1 ELSE updates
    /\ saved' = IF on_conversation_update THEN conversation_history'
                ELSE saved
    /\ returns' = returns + 1
    /\ outcome' = "streamed"
    /\ pc' = "idle"
    /\ UNCHANGED <<config_vars, iteration, max_iterations, batch_vars,
                   tool_call_events, stream_vars, raise_cause, result,
                   provider_calls, turns, granted, start_len>>
    /\ UNCHANGED ext_vars

\* the provider's stream raises
StreamRaises ==
    /\ pc = "streaming"
    /\ Raises("provider")
    /\ UNCHANGED <<config_vars, conversation_history, iteration,
                   max_iterations, batch_vars, tool_call_events, stream_vars,
                   provider_calls, turns, granted, start_len>>
    /\ UNCHANGED ext_vars

\* mutant: the first message survives
list_clear_KeepFirst(h) == IF h = <<>> THEN <<>> ELSE <<h[1]>>

\* list.clear()
list_clear(h) == <<>>

\* clear_history(), called by the host between two turns
ClearHistory ==
    /\ pc = "idle"
    /\ conversation_history' = list_clear(conversation_history)
    /\ UNCHANGED <<config_vars, iteration, max_iterations, batch_vars,
                   tool_call_events, stream_vars, outcome, raise_cause,
                   result, provider_calls, updates, saved, returns, turns,
                   granted, start_len, pc>>
    /\ UNCHANGED ext_vars

----------------------------------------------------------------------------
(* CodeAgentTUI: src/cli/interface.py, and SlashCommandTool *)

\* the commands handle_command is given here: by the user's Enter key and,
\* through SlashCommandTool.execute and _on_slash_command, by the model
SlashCommands ==
    {"/clear", "/init", "/enable shell_commands", "/disable shell_commands",
     "/help"}

\* the commands whose handling never suspends (append_output,
\* load_settings and save_settings do not await anything)
SyncCommands == SlashCommands \ {"/init"}

\* the arguments of a slash_command call, and the command they decode to
ArgsCommand(command) == "{\"command\": \"" \o command \o "\"}"

CommandOf(arguments) ==
    CHOOSE c \in SlashCommands : ArgsCommand(c) = arguments

\* _handle_init_command's prompt
InitPrompt == "Analyze this workspace and create a BOB.md file"

\* what _on_slash_command returns: the text handle_command appended
CommandOutput(command) ==
    CASE command = "/clear" -> "Conversation history cleared."
      [] command = "/enable shell_commands" -> "Enabled shell commands"
      [] command = "/disable shell_commands" -> "Disabled shell commands"
      [] command = "/init" -> "Generating BOB.md workspace documentation..."
      [] OTHER -> "Available commands:"

\* handle_command for a command that does not suspend: /clear empties the
\* agent's history, /enable and /disable store the flag in the settings and
\* hand the settings' permissions to the agent's executor
\* (here the settings file holds what the executor holds, as it does when
\* the TUI loaded its permissions from it; _handle_permission has the file)
handle_command(command, h, perms) ==
    CASE command = "/clear" -> [history |-> <<>>, permissions |-> perms]
      [] command = "/enable shell_commands" ->
            [history |-> h,
             permissions |-> [perms EXCEPT !.allow_shell_commands = TRUE]]
      [] command = "/disable shell_commands" ->
            [history |-> h,
             permissions |-> [perms EXCEPT !.allow_shell_commands = FALSE]]
      [] OTHER -> [history |-> h, permissions |-> perms]

\* what the first steps of a batch's coroutines read and write
DispatchState(ss, h, perms, spc, sslot, sn) ==
    [slots |-> ss, history |-> h, permissions |-> perms, second_pc |-> spc,
     second_slot |-> sslot, seen |-> sn]

\* the coroutine at position i from its start to its first suspension:
\* execute_tool_call's lookup, permission check and parse, and for a
\* slash_command call SlashCommandTool.execute, _on_slash_command and
\* handle_command as far as they run: to the end, or for /init to
\* provider.generate of the chat _handle_init_command starts
FirstStep(d, call, i) ==
    LET slot == execute_tool_call(call, tool_registry, d.permissions)
        tool == get(tool_registry, call.function.name)
        read == IF tool # NoTool /\ tool.required_permission # None
                THEN <<d.permissions>> ELSE <<>>
        handled == slot.state = "running"
                        /\ call.function.name = "slash_command"
        command == CommandOf(call.function.arguments)
    IN  IF ~handled
        THEN [d EXCEPT !.slots = Append(@, slot), !.seen = Append(@, read)]
        ELSE IF command = "/init"
        THEN [d EXCEPT !.slots = Append(@, slot), !.seen = Append(@, read),
                       !.history = Append(@, UserMessage(InitPrompt)),
                       !.second_pc = "generate", !.second_slot = i]
        ELSE LET e == handle_command(command, d.history, d.permissions)
             IN  [d EXCEPT !.slots = Append(@, ExecuteReturned(
                                        slot, CommandOutput(command))),
                           !.seen = Append(@, read),
                           !.history = e.history,
                           !.permissions = e.permissions]

\* asyncio.gather starts the coroutines in the order of the calls, and each
\* runs to its first suspension before the next one starts
RECURSIVE Dispatch(_, _, _)
Dispatch(d, calls, i) ==
    IF i > Len(calls) THEN d
    ELSE Dispatch(FirstStep(d, calls[i], i), calls, i + 1)

\* the /init calls of a batch
InitCalls(calls) ==
    Cardinality({i \in 1..Len(calls) :
                    /\ calls[i].function.name = "slash_command"
                    /\ calls[i].function.arguments = ArgsCommand("/init")})

\* chat / stream_chat invocations on the agent that are in flight
InFlight ==
    (IF pc # "idle" THEN 1 ELSE 0) + (IF second_pc # "idle" THEN 1 ELSE 0)

\* the calls the provider picks from when it answers the TUI's agent
TuiRequestedCalls ==
    {FunctionCall("bash", ArgsObject)}
        \cup {FunctionCall("slash_command", ArgsCommand(c)) :
                c \in SlashCommands}

TuiBatches ==
    UNION {[1..n -> TuiRequestedCalls] : n \in 1..MaxBatch}

TuiCallResponses == {AssistantMessage(None, WithIds(b)) : b \in TuiBatches}

FinalResponses == {AssistantMessage(c, <<>>) : c \in Contents}

\* provider.generate returns a response with tool calls to the chat of the
\* TUI's agent: the response is appended, the pre-execution notification is
\* sent, execute_tool_calls is called and the coroutines of its gather take
\* their first steps.  At most two invocations in flight are modelled: a
\* response whose /init would start a third one is not offered
TuiProviderResponds(response) ==
    /\ pc = "generate"
    /\ has_executor
    /\ response.tool_calls # <<>>
    /\ InitCalls(response.tool_calls) <=
            (IF second_pc = "idle" /\ granted < MaxIter THEN 1 ELSE 0)
    /\ LET d == Dispatch(DispatchState(<<>>,
                                       Append(conversation_history, response),
                                       permissions, second_pc, second_slot,
                                       <<>>),
                         response.tool_calls, 1)
           started == IF d.second_pc # second_pc THEN 1 ELSE 0
       IN  /\ provider_calls' = provider_calls + 1
           /\ batch_permissions' = permissions
           /\ conversation_history' = d.history
           /\ permissions' = d.permissions
           /\ slots' = d.slots
           /\ seen' = d.seen
           /\ second_pc' = d.second_pc
           /\ second_slot' = d.second_slot
           /\ granted' = granted + started
           /\ turns' = turns + started
    /\ completion' =
            SelectSeq([i \in 1..Len(response.tool_calls) |-> i],
                      LAMBDA i : slots'[i].state = "done")
    /\ tool_call_events' =
            IF on_tool_call
            THEN Append(tool_call_events,
                        ToolCallEvent(response.tool_calls, FALSE, <<>>))
            ELSE tool_call_events
    /\ pc' = "executing"
    /\ UNCHANGED <<kind, tool_registry, has_registry, has_executor,
                   is_subagent, on_conversation_update, on_tool_call,
                   iteration, max_iterations, tool_results, stream_vars,
                   outcome, raise_cause, result, updates, saved, returns,
                   start_len, keys, task_vars,
                   tool_vars>>

\* process_input for a command typed by the user; the Enter binding only
\* tests is_streaming, which chat never sets, so the command is handled
\* whether or not a chat is in flight
KeyCommand(command) ==
    /\ keys < MaxKeys
    /\ keys' = keys + 1
    /\ LET e == handle_command(command, conversation_history, permissions)
       IN  /\ conversation_history' = e.history
           /\ permissions' = e.permissions
    /\ UNCHANGED <<kind, tool_registry, has_registry, has_executor,
                   is_subagent, on_conversation_update, on_tool_call, pc,
                   iteration, max_iterations, batch_vars, tool_call_events,
                   stream_vars, outcome, raise_cause, result, provider_calls,
                   updates, saved, returns, turns, granted, start_len,
                   second_pc, second_slot, seen, batch_permissions,
                   task_vars,
                   tool_vars>>

\* process_input for text typed while a chat is in flight: a second
\* agent.chat starts on the same agent and runs to provider.generate
OverlapStart(user_input) ==
    /\ pc # "idle"
    /\ second_pc = "idle"
    /\ keys < MaxKeys
    /\ granted < MaxIter
    /\ keys' = keys + 1
    /\ granted' = granted + 1
    /\ turns' = turns + 1
    /\ conversation_history' =
            Append(conversation_history, UserMessage(user_input))
    /\ second_pc' = "generate"
    /\ second_slot' = 0
    /\ UNCHANGED <<config_vars, pc, iteration, max_iterations, batch_vars,
                   tool_call_events, stream_vars, outcome, raise_cause,
                   result, provider_calls, updates, saved, returns,
                   start_len, seen, batch_permissions, task_vars,
                   tool_vars>>

\* the slot of the /init call that started the overlapping chat gets its
\* result when _handle_init_command returns
InitSlotDone(text) ==
    IF second_slot = 0
    THEN UNCHANGED <<slots, completion>>
    ELSE /\ slots' = [slots EXCEPT ![second_slot] = ExecuteReturned(@, text)]
         /\ completion' = Append(completion, second_slot)

\* provider.generate answers the overlapping chat (here always without tool
\* calls): the response is appended, the save callback runs, chat returns
OverlapResponds(response) ==
    /\ second_pc = "generate"
    /\ conversation_history' = Append(conversation_history, response)
    /\ updates' = IF on_conversation_update THEN updates + 1 ELSE updates
    /\ saved' = IF on_conversation_update THEN conversation_history'
                ELSE saved
    /\ returns' = returns + 1
    /\ second_pc' = "idle"
    /\ second_slot' = 0
    /\ InitSlotDone(CommandOutput("/init"))
    /\ UNCHANGED <<config_vars, pc, iteration, max_iterations, tool_results,
                   tool_call_events, stream_vars, outcome, raise_cause,
                   result, provider_calls, turns, granted, start_len, seen,
                   batch_permissions, keys, task_vars,
                   tool_vars>>

\* provider.generate raises in the overlapping chat; _handle_init_command
\* and process_input catch the exception and print it
OverlapRaises ==
    /\ second_pc = "generate"
    /\ second_pc' = "idle"
    /\ second_slot' = 0
    /\ InitSlotDone("Error generating BOB.md")
    /\ UNCHANGED <<config_vars, conversation_history, pc, iteration,
                   max_iterations, tool_results, tool_call_events,
                   stream_vars, outcome, raise_cause, result, provider_calls,
                   updates, saved, returns, turns, granted, start_len, seen,
                   batch_permissions, keys, task_vars,
                   tool_vars>>

----------------------------------------------------------------------------
(* TaskTool: src/tools/implementations/task.py *)

\* the subagent_type values a model can pass: the two kinds and another one
SubagentTypes == SubagentKinds \cup {"review"}

\* the model argument: absent, or a model name
Models == {None, "gpt-4o"}

TaskPrompt == "find the tests"

\* the agent whose model called the task tool; its messages differ in
\* content from everything the subagent's provider answers, so that a
\* message of the parent is recognised wherever it turns up
Parents ==
    {[conversation_history |->
            <<UserMessage("refactor the parser"),
              AssistantMessage("Delegating the search.",
                    <<ToolCall("call_9", "task", ArgsObject)>>)>>,
      tool_registry |-> TuiRegistry,
      permissions |-> p] : p \in SettingsPermissions}

\* an on_subagent_event invocation: (type, subagent_type, text) for start,
\* complete and error, (type, tool_calls, tool_results) for tool_call
LifecycleEvent(type, subagent_type, text, notification) ==
    [type |-> type, subagent_type |-> subagent_type, text |-> text,
     notification |-> notification]

\* mutant: the relay sends the event without the calls and the results
_wrap_on_tool_call_Bare(notification) ==
    LifecycleEvent("tool_call", None, None, <<>>)

\* TaskTool._wrap_on_tool_call: what the subagent's on_tool_call sends on
_wrap_on_tool_call(notification) ==
    LifecycleEvent("tool_call", None, None, <<notification>>)

\* mutant: the recursion guard is missing
Refuses_Never(t) == FALSE

\* "Prevent recursion"
Refuses(t) == t.is_subagent

RefusalText == "Error: Subagents cannot spawn additional subagents."

InvalidKindText == "Error: Invalid subagent_type"

\* the except clause's error_msg
ErrorMsg(subagent_type) == "Error executing " \o subagent_type \o " subagent"

\* mutant: the new agent starts on its creator's history
NewHistory_Inherited(creator_history) == creator_history

\* CodeAgent.__init__: the history of a new agent, whoever creates it
NewHistory(creator_history) == <<>>

\* the messages chat hands to provider.generate
OutboundMessages(h) == <<Message("system", "SYSTEM_PROMPT", <<>>, None, None)>> \o h

\* everything the host's on_subagent_event received, in order: the start
\* event, the subagent's relayed notifications, the events after the chat
LifecycleLog ==
    IF events = <<>> THEN <<>>
    ELSE <<events[1]>>
            \o [i \in 1..Len(tool_call_events) |->
                    _wrap_on_tool_call(tool_call_events[i])]
            \o Tail(events)

\* execute(task_prompt, subagent_type, model) up to its first await or return
TaskExecute(subagent_type, model) ==
    /\ task_pc = "idle"
    /\ task' = [task EXCEPT !.subagent_type = subagent_type,
                            !.model = model, !.task_prompt = TaskPrompt]
    /\ IF Refuses(task)
       THEN /\ task_pc' = "returned"
            /\ task_result' = RefusalText
            /\ UNCHANGED events
       ELSE IF subagent_type \notin {"explore", "plan"}
       THEN /\ task_pc' = "returned"
            /\ task_result' = InvalidKindText
            /\ UNCHANGED events
       ELSE /\ task_pc' = "starting"
            /\ events' =
                    IF task.has_callback
                    THEN Append(events, LifecycleEvent("start", subagent_type,
                                                       TaskPrompt, <<>>))
                    ELSE events
            /\ UNCHANGED task_result
    /\ UNCHANGED <<config_vars, conversation_history, pc, iteration,
                   max_iterations, batch_vars, tool_call_events, stream_vars,
                   outcome, raise_cause, result, provider_calls, updates,
                   saved, returns, turns, granted, start_len, host_vars, tool_vars,
                   providers_built, subagents_built, parent>>

\* a step of execute that leaves the agent alone
TaskStep ==
    UNCHANGED <<config_vars, conversation_history, pc, iteration,
                max_iterations, batch_vars, tool_call_events, stream_vars,
                outcome, raise_cause, result, provider_calls, updates, saved,
                returns, turns, granted, start_len, host_vars, tool_vars, task,
                subagents_built, parent>>

\* the callback raises on the start event
StartCallbackRaises ==
    /\ task_pc = "starting"
    /\ task.has_callback
    /\ task_pc' = "failed"
    /\ UNCHANGED <<events, task_result, providers_built>>
    /\ TaskStep

\* provider_factory raises (LLM(model_override) for a model name that is
\* not an LLM value, or the provider's constructor)
ProviderFactoryRaises ==
    /\ task_pc = "starting"
    /\ task_pc' = "failed"
    /\ UNCHANGED <<events, task_result, providers_built>>
    /\ TaskStep

\* the provider is built, create_subagent constructs the subagent, and
\* subagent.chat(task_prompt, max_iterations) runs to provider.generate
SubagentStarts ==
    /\ task_pc = "starting"
    /\ LET made == create_subagent(task.subagent_type)
       IN  /\ kind' = made.agent.kind
           /\ tool_registry' = made.agent.tool_registry
           /\ has_registry' = made.agent.has_registry
           /\ permissions' = made.agent.permissions
           /\ has_executor' = made.agent.has_executor
           /\ is_subagent' = made.agent.is_subagent
           /\ on_conversation_update' = made.agent.on_conversation_update
           /\ on_tool_call' = made.agent.on_tool_call
           /\ max_iterations' = made.max_iterations
    /\ providers_built' = providers_built + 1
    /\ subagents_built' = subagents_built + 1
    /\ conversation_history' =
            Append(NewHistory(parent.conversation_history),
                   UserMessage(task.task_prompt))
    /\ start_len' = 0
    /\ iteration' = 1
    /\ pc' = "generate"
    /\ outcome' = "running"
    /\ turns' = turns + 1
    /\ task_pc' = "chatting"
    /\ UNCHANGED <<batch_vars, tool_call_events, stream_vars, raise_cause,
                   result, provider_calls, updates, saved, returns, granted,
                   host_vars, tool_vars, task, events, task_result, parent>>

\* the subagent's on_tool_call, which is _wrap_on_tool_call, raises out of
\* the host's callback before the batch is dispatched: chat raises
RelayRaisesBefore(response) ==
    /\ task_pc = "chatting"
    /\ task.has_callback
    /\ pc = "generate"
    /\ has_executor
    /\ response.tool_calls # <<>>
    /\ provider_calls' = provider_calls + 1
    /\ conversation_history' = Append(conversation_history, response)
    /\ tool_call_events' =
            Append(tool_call_events,
                   ToolCallEvent(response.tool_calls, FALSE, <<>>))
    /\ Raises("callback")
    /\ UNCHANGED <<config_vars, iteration, max_iterations, batch_vars,
                   stream_vars, turns, granted, start_len, ext_vars>>

\* the same after the batch: the results are not appended, chat raises
RelayRaisesAfter ==
    /\ task_pc = "chatting"
    /\ task.has_callback
    /\ pc = "executing"
    /\ \A i \in 1..Len(slots) : slots[i].state = "done"
    /\ tool_results' = gather(slots, completion)
    /\ tool_call_events' =
            Append(tool_call_events,
                   ToolCallEvent([i \in 1..Len(slots) |-> slots[i].tool_call],
                                 TRUE, tool_results'))
    /\ Raises("callback")
    /\ UNCHANGED <<config_vars, conversation_history, iteration,
                   max_iterations, slots, completion, stream_vars,
                   provider_calls, turns, granted, start_len, ext_vars>>

\* subagent.chat returned: the complete event is sent, or without a
\* callback execute returns the result
SubagentReturned ==
    /\ task_pc = "chatting"
    /\ pc = "idle"
    /\ outcome = "returned"
    /\ IF task.has_callback
       THEN /\ events' = Append(events,
                                LifecycleEvent("complete", task.subagent_type,
                                               result, <<>>))
            /\ task_pc' = "completing"
            /\ UNCHANGED task_result
       ELSE /\ task_pc' = "returned"
            /\ task_result' = result
            /\ UNCHANGED events
    /\ UNCHANGED providers_built
    /\ TaskStep

\* the callback returns from the complete event: execute returns the result
CompleteCallbackReturns ==
    /\ task_pc = "completing"
    /\ task_pc' = "returned"
    /\ task_result' = result
    /\ UNCHANGED <<events, providers_built>>
    /\ TaskStep

\* the callback raises on the complete event, inside the try block
CompleteCallbackRaises ==
    /\ task_pc = "completing"
    /\ task_pc' = "failed"
    /\ UNCHANGED <<events, task_result, providers_built>>
    /\ TaskStep

\* subagent.chat raised
SubagentRaised ==
    /\ task_pc = "chatting"
    /\ pc = "idle"
    /\ outcome = "raised"
    /\ task_pc' = "failed"
    /\ UNCHANGED <<events, task_result, providers_built>>
    /\ TaskStep

\* the except clause: the error event is sent, or without a callback
\* execute returns error_msg
ExceptClause ==
    /\ task_pc = "failed"
    /\ IF task.has_callback
       THEN /\ events' = Append(events,
                                LifecycleEvent("error", task.subagent_type,
                                               ErrorMsg(task.subagent_type),
                                               <<>>))
            /\ task_pc' = "reporting"
            /\ UNCHANGED task_result
       ELSE /\ task_pc' = "returned"
            /\ task_result' = ErrorMsg(task.subagent_type)
            /\ UNCHANGED events
    /\ UNCHANGED providers_built
    /\ TaskStep

\* the callback returns from the error event: execute returns error_msg
ErrorCallbackReturns ==
    /\ task_pc = "reporting"
    /\ task_pc' = "returned"
    /\ task_result' = ErrorMsg(task.subagent_type)
    /\ UNCHANGED <<events, providers_built>>
    /\ TaskStep

\* the callback raises on the error event: nothing catches it, execute raises
ErrorCallbackRaises ==
    /\ task_pc = "reporting"
    /\ task_pc' = "raised"
    /\ UNCHANGED <<events, task_result, providers_built>>
    /\ TaskStep

\* SubagentFactory.create_subagent called directly with some kind
FactoryCall(subagent_type) ==
    /\ task_pc = "idle"
    /\ LET made == create_subagent(subagent_type)
       IN  /\ kind' = made.agent.kind
           /\ tool_registry' = made.agent.tool_registry
           /\ has_registry' = made.agent.has_registry
           /\ permissions' = made.agent.permissions
           /\ has_executor' = made.agent.has_executor
           /\ is_subagent' = made.agent.is_subagent
           /\ on_conversation_update' = made.agent.on_conversation_update
           /\ on_tool_call' = made.agent.on_tool_call
           /\ max_iterations' = made.max_iterations
           /\ subagents_built' =
                    IF made = ValueError THEN subagents_built
                    ELSE subagents_built + 1
           /\ task_pc' =
                    IF made = ValueError THEN "factory_raised"
                    ELSE "factory_returned"
    /\ task' = [task EXCEPT !.subagent_type = subagent_type]
    /\ UNCHANGED <<conversation_history, pc, iteration, batch_vars,
                   tool_call_events, stream_vars, outcome, raise_cause,
                   result, provider_calls, updates, saved, returns, turns,
                   granted, start_len, host_vars, tool_vars, events, task_result,
                   providers_built, parent>>

----------------------------------------------------------------------------
(* Values of Python as they arrive in tool arguments (json.loads of the    *)
(* model's argument string): a value carries its type.  A dict is the      *)
(* sequence of its <<key, value>> pairs in order of insertion.             *)

J(t, v) == [t |-> t, v |-> v]

PyNone == J("none", 0)

JStr(s) == J("str", s)

JList(items) == J("list", items)

PyType(v) == IF v.t = "none" THEN "NoneType" ELSE v.t

\* bool(v), as tested by "not v" and "v or w"
Truthy(v) ==
    CASE v.t = "none" -> FALSE
      [] v.t = "bool" -> v.v
      [] v.t = "int"  -> v.v # 0
      [] v.t = "str"  -> v.v # ""
      [] v.t = "list" -> v.v # <<>>
      [] v.t = "dict" -> v.v # <<>>

\* len(v) is defined for these types and raises TypeError for the others
Sized(v) == v.t \in {"str", "list", "dict"}

PyLen(v) == Len(v.v)

\* what "for x in v" yields: the items of a list, the characters of a str,
\* the keys of a dict
Items(v) ==
    CASE v.t = "list" -> v.v
      [] v.t = "str"  -> [j \in 1..Len(v.v) |-> JStr(SubSeq(v.v, j, j))]
      [] v.t = "dict" -> [j \in 1..Len(v.v) |-> JStr(v.v[j][1])]

HasKey(d, key) == \E j \in 1..Len(d.v) : d.v[j][1] = key

\* d.get(key, default) of a dict
Get(d, key, default) ==
    IF HasKey(d, key) THEN d.v[CHOOSE j \in 1..Len(d.v) : d.v[j][1] = key][2]
    ELSE default

\* sub in s, of two str
Substring(sub, s) ==
    \E j \in 1..(Len(s) - Len(sub) + 1) : SubSeq(s, j, j + Len(sub) - 1) = sub

\* key in v: a key of a dict, a substring of a str, an item of a list;
\* TypeError for the other types
In(key, v) ==
    CASE v.t = "dict" -> HasKey(v, key)
      [] v.t = "str"  -> Substring(key, v.v)
      [] v.t = "list" -> \E j \in 1..Len(v.v) : v.v[j] = JStr(key)

\* str(v) inside an f-string, for the values the model formats
Fmt(v) == IF v.t = "int" THEN ToString(v.v) ELSE v.v

----------------------------------------------------------------------------
(* The interactive tools: src/tools/implementations/ask.py, plan_mode.py,  *)
(* exit_plan_mode.py, slash_command.py, and the callbacks the TUI wires    *)
(* into them (src/cli/interface.py)                                        *)

InteractiveTools ==
    {"ask_user_question", "enter_plan_mode", "exit_plan_mode", "slash_command"}

NoRequest == [tool |-> "none", arg |-> PyNone]

NoOutcome == [tool |-> "none", how |-> "none", text |-> ""]

Returned(tool, text) == [tool |-> tool, how |-> "returned", text |-> text]

Raised(tool, text) == [tool |-> tool, how |-> "raised", text |-> text]

\* class Question
Question(question, header, options, multi_select) ==
    [question |-> question, header |-> header, options |-> options,
     multi_select |-> multi_select]

ParseError(i, text) ==
    [ok |-> FALSE, text |-> "Error parsing question " \o ToString(i) \o ": " \o text]

QuestionError(i, text) ==
    [ok |-> FALSE, text |-> "Error: Question " \o ToString(i) \o text]

\* the first option that stops the loop over the options, 0 when none does
FirstBadOption(options) ==
    LET opts == Items(options)
        bad == {j \in 1..Len(opts) :
                    \/ ~Sized(opts[j])
                    \/ ~In("label", opts[j])
                    \/ ~In("description", opts[j])}
    IN  IF bad = {} THEN 0
        ELSE CHOOSE j \in bad : \A k \in bad : j <= k

\* AskUserQuestionTool.execute, the body of the loop for question number i
\* (i counts from 1): the try block and its except clause
ParseQuestion(q, i) ==
    IF q.t # "dict"
    THEN ParseError(i, "'" \o PyType(q) \o "' object has no attribute 'get'")
    ELSE
    LET question_text == Get(q, "question", PyNone)
        header == Get(q, "header", PyNone)
        options == Get(q, "options", JList(<<>>))
        multi_select == Get(q, "multiSelect", J("bool", FALSE))
        j == FirstBadOption(options)
    IN  IF ~Truthy(question_text) \/ ~Truthy(header)
        THEN QuestionError(i, " missing 'question' or 'header' field")
        ELSE IF ~Sized(header)
        THEN ParseError(i, "object of type '" \o PyType(header) \o "' has no len()")
        ELSE IF PyLen(header) > 12
        THEN QuestionError(i, " header '" \o Fmt(header) \o "' exceeds 12 characters")
        ELSE IF ~Sized(options)
        THEN ParseError(i, "object of type '" \o PyType(options) \o "' has no len()")
        ELSE IF PyLen(options) < 2 \/ PyLen(options) > 4
        THEN QuestionError(i, " must have 2-4 options, got " \o ToString(PyLen(options)))
        ELSE IF j # 0 /\ ~Sized(Items(options)[j])
        THEN ParseError(i, "argument of type '" \o PyType(Items(options)[j]) \o "' is not iterable")
        ELSE IF j # 0
        THEN QuestionError(i, ", option " \o ToString(j) \o " missing 'label' or 'description'")
        ELSE [ok |-> TRUE,
              question |-> Question(question_text, header, options, multi_select)]

\* AskUserQuestionTool.execute up to the check of the callback: the count
\* of the questions (outside any try block), then the loop, which returns
\* at the first question that fails
Parse(questions) ==
    IF ~Truthy(questions)
    THEN [how |-> "returned", text |-> "Error: Must provide 1-4 questions", parsed |-> <<>>]
    ELSE IF ~Sized(questions)
    THEN [how |-> "raised", text |-> "TypeError: object of type '" \o PyType(questions) \o "' has no len()", parsed |-> <<>>]
    ELSE IF PyLen(questions) > 4
    THEN [how |-> "returned", text |-> "Error: Must provide 1-4 questions", parsed |-> <<>>]
    ELSE
    LET qs == Items(questions)
        each == [i \in 1..Len(qs) |-> ParseQuestion(qs[i], i)]
        bad == {i \in 1..Len(qs) : ~each[i].ok}
    IN  IF bad # {}
        THEN [how |-> "returned", text |-> each[CHOOSE i \in bad : \A k \in bad : i <= k].text, parsed |-> <<>>]
        ELSE [how |-> "valid", text |-> "", parsed |-> [i \in 1..Len(qs) |-> each[i].question]]

\* "\n".join(parts)
RECURSIVE JoinLines(_)
JoinLines(parts) ==
    IF Len(parts) = 0 THEN ""
    ELSE IF Len(parts) = 1 THEN parts[1]
    ELSE parts[1] \o "\n" \o JoinLines(Tail(parts))

\* the key under which the callback answers question number i (from 0)
AnswerKey(i) == "question_" \o ToString(i)

\* answers.get(answer_key, "No answer provided")
AnswerOf(answers, i) ==
    IF AnswerKey(i) \in DOMAIN answers THEN answers[AnswerKey(i)]
    ELSE "No answer provided"

\* AskUserQuestionTool.execute: the response built from the answers
Summary(parsed, answers) ==
    JoinLines(<<"User's answers:">> \o
              [i \in 1..Len(parsed) |->
                  "\n" \o Fmt(parsed[i].header) \o ": " \o AnswerOf(answers, i - 1)])

\* the questions the tool is executed with
Option(label, description) ==
    J("dict", <<<<"label", JStr(label)>>, <<"description", JStr(description)>>>>)

TwoOptions == JList(<<Option("Red", "warm"), Option("Blue", "cold")>>)

AskedQuestion(question, header, options) ==
    J("dict", <<<<"question", JStr(question)>>, <<"header", JStr(header)>>,
                <<"options", options>>>>)

Color == AskedQuestion("Which color?", "Color", TwoOptions)

Size == AskedQuestion("Which size?", "Size", TwoOptions)

AskInputs ==
    { JList(<<Color>>),
      JList(<<Color, Size>>),
      JList(<<>>),
      JList(<<Color, Size, Color, Size, Color>>),
      J("int", 5),
      JList(<<J("int", 7)>>),
      JList(<<AskedQuestion("", "Color", TwoOptions)>>),
      JList(<<J("dict", <<<<"question", JStr("Which color?")>>,
                          <<"options", TwoOptions>>>>)>>),
      JList(<<AskedQuestion("Which color?", "Favorite color", TwoOptions)>>),
      JList(<<AskedQuestion("Which color?", "Color",
                            JList(<<Option("Red", "warm")>>))>>),
      JList(<<AskedQuestion("Which color?", "Color",
                  JList(<<Option("Red", "warm"),
                          J("dict", <<<<"label", JStr("Blue")>>>>)>>))>>),
      JList(<<AskedQuestion("Which color?", "Color",
                  JList(<<JStr("label description"),
                          JStr("description label")>>))>>),
      JList(<<Color, AskedQuestion("Which size?", "Size", JList(<<>>))>>) }

\* what the question callback can return: a mapping from some of the keys
\* to answers; the empty mapping also stands for None
AnswerKeys == {AnswerKey(0), AnswerKey(1)}

CallbackAnswers == UNION {[K -> {"Red", "2"}] : K \in SUBSET AnswerKeys}

\* an entry of the log of one execution's exchanges with the host: the
\* call of a callback with its argument, the callback's "return" with its
\* value or its "raise", the line the user typed ("process_input")
Invocation(callback, arg) == [callback |-> callback, arg |-> arg]

\* one execution of a tool starts: execute is called
Begin(tool, arg) ==
    /\ tool_pc = "idle"
    /\ executions < MaxCalls
    /\ executions' = executions + 1
    /\ tool_request' = [tool |-> tool, arg |-> arg]

\* execute returns or raises without having called the callback
Ends(ending) ==
    /\ tool_out' = ending
    /\ tool_pc' = "idle"
    /\ invoked' = <<>>
    /\ UNCHANGED is_in_plan_mode

\* execute awaits the callback
Awaits(callback, arg) ==
    /\ tool_out' = NoOutcome
    /\ tool_pc' = callback
    /\ invoked' = <<Invocation(callback, arg)>>
    /\ UNCHANGED is_in_plan_mode

\* AskUserQuestionTool.execute(questions) up to the await of the callback
AskExecute(questions) ==
    LET p == Parse(questions)
        tool == "ask_user_question"
    IN  /\ Begin(tool, questions)
        /\ IF p.how = "raised" THEN Ends(Raised(tool, p.text))
           ELSE IF p.how = "returned" THEN Ends(Returned(tool, p.text))
           ELSE IF tool \notin wired
           THEN Ends(Returned(tool,
                  "Error: Question tool not properly initialized (no callback provided)"))
           ELSE Awaits("on_question_callback", p.parsed)
        /\ UNCHANGED <<agent_vars, wired>>

\* the callback returned: the summary, or the error text for no answers
AskCallbackReturns(answers) ==
    /\ tool_pc = "on_question_callback"
    /\ tool_out' = Returned("ask_user_question",
            IF DOMAIN answers = {} THEN "Error: No answers received from user"
            ELSE Summary(invoked[1].arg, answers))
    /\ tool_pc' = "idle"
    /\ invoked' = Append(invoked, Invocation("return", J("answers", answers)))
    /\ UNCHANGED <<agent_vars, wired, is_in_plan_mode, tool_request,
                   executions>>

\* the callback raised: the except clause turns it into text
AskCallbackRaises ==
    /\ tool_pc = "on_question_callback"
    /\ tool_out' = Returned("ask_user_question",
                            "Error asking questions: callback failed")
    /\ tool_pc' = "idle"
    /\ invoked' = Append(invoked, Invocation("raise", PyNone))
    /\ UNCHANGED <<agent_vars, wired, is_in_plan_mode, tool_request,
                   executions>>

\* str.isdigit, over the ASCII digits
IsDigit(text) ==
    /\ Len(text) > 0
    /\ \A j \in 1..Len(text) :
          \E d \in 1..10 : SubSeq(text, j, j) = SubSeq("0123456789", d, d)

\* int(text) of a str of digits
RECURSIVE int(_)
int(text) ==
    IF Len(text) = 0 THEN 0
    ELSE 10 * int(SubSeq(text, 1, Len(text) - 1))
         + (CHOOSE d \in 0..9 :
               SubSeq("0123456789", d + 1, d + 1) = SubSeq(text, Len(text), Len(text)))

\* mutant: the number typed counts the options from 0
_get_user_answer_for_question_FromZero(question, answer) ==
    LET options == Items(question.options)
        picked == IF IsDigit(answer) /\ int(answer) + 1 \in 1..Len(options)
                  THEN Fmt(Get(options[int(answer) + 1], "label", PyNone))
                  ELSE answer
    IN  IF picked = "" THEN "No answer provided" ELSE picked

\* CodeAgentTUI._get_user_answer_for_question, from the line the user
\* submitted to its return: a number within the options becomes the label
\* of that option
_get_user_answer_for_question(question, answer) ==
    LET options == Items(question.options)
        picked == IF IsDigit(answer) /\ int(answer) \in 1..Len(options)
                  THEN Fmt(Get(options[int(answer)], "label", PyNone))
                  ELSE answer
    IN  IF picked = "" THEN "No answer provided" ELSE picked

\* the lines the user can submit to a question (process_input strips the
\* line and passes no empty one on)
TypedLines == {"2", "Green", "7"}

\* CodeAgentTUI._on_user_question with the lines the user submits, one per
\* question: it reads label and description of every option to display
\* them (TypeError for an option that is no dict) and returns the answers
\* under the keys question_0, question_1, ...
AskHostAnswers(typed) ==
    LET parsed == invoked[1].arg
        displayable == \A i \in 1..Len(parsed) :
                          \A j \in 1..PyLen(parsed[i].options) :
                              Items(parsed[i].options)[j].t = "dict"
        answers == [key \in {AnswerKey(i - 1) : i \in 1..Len(parsed)} |->
                      LET i == CHOOSE i \in 1..Len(parsed) : AnswerKey(i - 1) = key
                      IN  _get_user_answer_for_question(parsed[i], typed[i])]
    IN  /\ tool_pc = "on_question_callback"
        /\ Len(typed) = Len(parsed)
        /\ displayable
        /\ tool_out' = Returned("ask_user_question", Summary(parsed, answers))
        /\ tool_pc' = "idle"
        /\ invoked' = invoked \o <<Invocation("process_input", J("lines", typed)),
                                    Invocation("return", J("answers", answers))>>
        /\ UNCHANGED <<agent_vars, wired, is_in_plan_mode, tool_request,
                       executions>>

\* EnterPlanModeTool.execute() up to the await of the callback, which
\* prompts the user and waits for the next line of input
EnterExecute ==
    LET tool == "enter_plan_mode"
    IN  /\ Begin(tool, PyNone)
        /\ IF tool \notin wired
           THEN Ends(Returned(tool,
                  "Error: EnterPlanMode tool not properly initialized (no callback provided)"))
           ELSE Awaits("on_enter_plan_mode", PyNone)
        /\ UNCHANGED <<agent_vars, wired>>

LowerChar(c) ==
    CASE c = "Y" -> "y" [] c = "E" -> "e" [] c = "S" -> "s"
      [] c = "N" -> "n" [] c = "O" -> "o" [] OTHER -> c

\* str.lower, over the letters of the answers
RECURSIVE Lower(_)
Lower(text) ==
    IF Len(text) = 0 THEN ""
    ELSE LowerChar(SubSeq(text, 1, 1)) \o Lower(SubSeq(text, 2, Len(text)))

\* what the user can type at the plan-mode prompt (process_input passes
\* no empty line on)
PlanAnswers == {"yes", "Y", "1", "no", "sure"}

\* EnterPlanModeTool.execute: what it returns when the callback approved
ActivationText == "Plan mode activated. You are now in planning mode."

\* EnterPlanModeTool.execute: what it returns when the callback declined
DeniedText ==
    "Plan mode request denied by user. Proceeding with direct implementation."

\* mutant: every answer approves
Approved_Always(answer) == TRUE

\* CodeAgentTUI._on_enter_plan_mode: the answer approves the request
Approved(answer) ==
    answer # "" /\ Lower(answer) \in {"yes", "y", "1", "true"}

\* _on_enter_plan_mode from the user's answer to its return, and
\* EnterPlanModeTool.execute from the callback's return to its own
EnterAnswered(answer) ==
    /\ tool_pc = "on_enter_plan_mode"
    /\ is_in_plan_mode' = IF Approved(answer) THEN TRUE ELSE is_in_plan_mode
    /\ tool_out' = Returned("enter_plan_mode",
            IF Approved(answer) THEN ActivationText ELSE DeniedText)
    /\ tool_pc' = "idle"
    /\ invoked' = Append(invoked, Invocation("process_input", JStr(answer)))
    /\ UNCHANGED <<agent_vars, wired, tool_request, executions>>

\* _on_exit_plan_mode: what it returns when plan mode is not active
WarningText == "Warning: Not currently in plan mode"

\* _on_exit_plan_mode: what it returns after leaving plan mode
ExitedText == "Plan mode exited successfully. Ready to implement."

\* mutant: the callback reports the exit and leaves plan mode on
_on_exit_plan_mode_Stays(active) ==
    IF ~active
    THEN [is_in_plan_mode |-> FALSE, text |-> WarningText]
    ELSE [is_in_plan_mode |-> TRUE, text |-> ExitedText]

\* CodeAgentTUI._on_exit_plan_mode: the state it leaves and what it returns
_on_exit_plan_mode(active) ==
    IF ~active
    THEN [is_in_plan_mode |-> FALSE, text |-> WarningText]
    ELSE [is_in_plan_mode |-> FALSE, text |-> ExitedText]

\* ExitPlanModeTool.execute(): the callback does not wait for the user, so
\* the execution is one step; it can run while an approval is awaited
\* (two tool calls of one batch)
ExitExecute ==
    LET tool == "exit_plan_mode"
        done == _on_exit_plan_mode(is_in_plan_mode)
    IN  /\ tool_pc \in {"idle", "on_enter_plan_mode"}
        /\ executions < MaxCalls
        /\ executions' = executions + 1
        /\ IF tool \notin wired
           THEN /\ tool_out' = Returned(tool,
                      "Error: ExitPlanMode tool not properly initialized (no callback provided)")
                /\ invoked' = IF tool_pc = "idle" THEN <<>> ELSE invoked
                /\ UNCHANGED is_in_plan_mode
           ELSE /\ tool_out' = Returned(tool, done.text)
                /\ invoked' = (IF tool_pc = "idle" THEN <<>> ELSE invoked)
                                \o <<Invocation("on_exit_plan_mode", PyNone)>>
                /\ is_in_plan_mode' = done.is_in_plan_mode
        /\ tool_request' =
                IF tool_pc = "idle" THEN [tool |-> tool, arg |-> PyNone]
                ELSE tool_request
        /\ UNCHANGED <<agent_vars, wired, tool_pc>>

\* the commands the tool is executed with
CommandInputs ==
    {JStr(""), JStr("help"), JStr("/help"), JStr("/clear"), J("int", 5),
     JList(<<>>)}

\* what a command handler can return
HandlerOutputs == {"Available commands: /help /clear", "Command executed", ""}

\* command.startswith("/") of a str
StartsWithSlash(text) == Len(text) > 0 /\ SubSeq(text, 1, 1) = "/"

\* SlashCommandTool.execute: what it returns for an empty output
NoOutputText == "Command executed successfully (no output)"

\* mutant: the handler's output is returned as it is
ResultOrDefault_Verbatim(output) == output

\* result or "Command executed successfully (no output)"
ResultOrDefault(output) ==
    IF output # "" THEN output ELSE NoOutputText

\* SlashCommandTool.execute(command) up to the await of the handler
SlashExecute(command) ==
    LET tool == "slash_command"
    IN  /\ Begin(tool, command)
        /\ IF ~Truthy(command)
           THEN Ends(Returned(tool, "Error: Command cannot be empty"))
           ELSE IF command.t # "str"
           THEN Ends(Raised(tool, "AttributeError: '" \o PyType(command)
                                  \o "' object has no attribute 'startswith'"))
           ELSE IF ~StartsWithSlash(command.v)
           THEN Ends(Returned(tool,
                  "Error: Slash commands must start with '/'. Did you mean '/"
                  \o command.v \o "'?"))
           ELSE IF tool \notin wired
           THEN Ends(Returned(tool,
                  "Error: SlashCommand tool not properly initialized (no command handler provided)"))
           ELSE Awaits("command_handler", command)
        /\ UNCHANGED <<agent_vars, wired>>

\* the handler returned
SlashHandlerReturns(output) ==
    /\ tool_pc = "command_handler"
    /\ tool_out' = Returned("slash_command", ResultOrDefault(output))
    /\ tool_pc' = "idle"
    /\ invoked' = Append(invoked, Invocation("return", JStr(output)))
    /\ UNCHANGED <<agent_vars, wired, is_in_plan_mode, tool_request,
                   executions>>

\* the handler raised: the except clause turns it into text
SlashHandlerRaises ==
    /\ tool_pc = "command_handler"
    /\ tool_out' = Returned("slash_command",
            "Error executing command '" \o tool_request.arg.v
            \o "': handler failed")
    /\ tool_pc' = "idle"
    /\ invoked' = Append(invoked, Invocation("raise", PyNone))
    /\ UNCHANGED <<agent_vars, wired, is_in_plan_mode, tool_request,
                   executions>>

----------------------------------------------------------------------------
(* CodeAgentTUI: the requests of one batch that wait for the user.         *)
(* _get_user_answer_for_question and _on_enter_plan_mode share the fields  *)
(* pending_question_event and pending_question_answer of the TUI.          *)

\* the tools whose callback waits for a line of the user
WaitingTools == {"ask_user_question", "enter_plan_mode"}

\* the batches of such calls (an ask_user_question with one question)
WaitingBatches == UNION {[1..n -> WaitingTools] : n \in 1..MaxWaiting}

\* asyncio.gather starts the coroutines in the order of the batch; each
\* runs to its first suspension without interleaving: it sets
\* pending_question_answer = None, stores a new asyncio.Event in
\* pending_question_event and awaits that Event
DispatchWaiting(batch) ==
    /\ waiters = <<>>
    /\ lines = <<>>
    /\ question_events' = [i \in 1..Len(batch) |-> FALSE]
    /\ waiters' = [i \in 1..Len(batch) |->
                      [tool |-> batch[i], event |-> i, state |-> "waiting",
                       answer |-> <<>>]]
    /\ pending_question_event' = Len(batch)
    /\ pending_question_answer' = <<>>
    /\ lines' = <<>>
    /\ UNCHANGED <<config_vars, conversation_history, pc, iteration,
                   max_iterations, batch_vars, tool_call_events, stream_vars,
                   outcome, raise_cause, result, provider_calls, updates,
                   saved, returns, turns, granted, start_len, host_vars,
                   task_vars, wired, is_in_plan_mode, tool_pc, tool_request,
                   tool_out, invoked, executions, registered, settings>>

\* a coroutine whose Event is set and that has not run yet
Runnable(i) == waiters[i].state = "waiting" /\ question_events[waiters[i].event]

\* process_input for a non-empty line: with a pending Event the line
\* becomes the pending answer and the Event is set; without one the line
\* is handled as a command or a chat message.  (The loop runs a coroutine
\* that was woken before it handles the next key.)
SubmitLine(line) ==
    /\ waiters # <<>>
    /\ Len(lines) < MaxLines
    /\ \A i \in 1..Len(waiters) : ~Runnable(i)
    /\ IF pending_question_event # 0
       THEN /\ pending_question_answer' = <<line>>
            /\ question_events' =
                    [question_events EXCEPT ![pending_question_event] = TRUE]
            /\ lines' = Append(lines, [text |-> line, to |-> "question"])
       ELSE /\ lines' = Append(lines, [text |-> line, to |-> "chat"])
            /\ UNCHANGED <<pending_question_answer, question_events>>
    /\ UNCHANGED <<pending_question_event, waiters>>
    /\ UNCHANGED <<config_vars, conversation_history, pc, iteration,
                   max_iterations, batch_vars, tool_call_events, stream_vars,
                   outcome, raise_cause, result, provider_calls, updates,
                   saved, returns, turns, granted, start_len, host_vars,
                   task_vars, wired, is_in_plan_mode, tool_pc, tool_request,
                   tool_out, invoked, executions, registered, settings>>

\* a coroutine resumes after its Event was set: it takes the pending
\* answer and resets pending_question_answer and pending_question_event
Resume(i) ==
    /\ i \in 1..Len(waiters)
    /\ Runnable(i)
    /\ waiters' = [waiters EXCEPT ![i].state = "resumed",
                                  ![i].answer = pending_question_answer]
    /\ pending_question_answer' = <<>>
    /\ pending_question_event' = 0
    /\ UNCHANGED <<question_events, lines>>
    /\ UNCHANGED <<config_vars, conversation_history, pc, iteration,
                   max_iterations, batch_vars, tool_call_events, stream_vars,
                   outcome, raise_cause, result, provider_calls, updates,
                   saved, returns, turns, granted, start_len, host_vars,
                   task_vars, wired, is_in_plan_mode, tool_pc, tool_request,
                   tool_out, invoked, executions, registered, settings>>

----------------------------------------------------------------------------
(* CodeAgentTUI and WorkspaceConfig: the permissions in .bob/settings.json *)
(* and in the agent's executor.                                            *)

\* .bob/ without a settings.json
NoSettings ==
    [exists |-> FALSE, model |-> None,
     permissions |-> ToolPermissions(FALSE, FALSE, FALSE)]

\* the values of the enum LLM that occur here, and a model name that is
\* none of its values
LLMValues == {"gpt-4o-mini-2024-07-18"}

ModelNames == LLMValues \cup {"gpt-3.5-turbo"}

AllPermissions ==
    {ToolPermissions(f, sh, n) : f \in BOOLEAN, sh \in BOOLEAN, n \in BOOLEAN}

\* what the file can hold when the TUI starts: WorkspaceSettings takes any
\* string as model
SettingsFiles ==
    {NoSettings}
        \cup {[exists |-> TRUE, model |-> m, permissions |-> p] :
                m \in ModelNames, p \in AllPermissions}

\* CodeAgentTUI.__init__: load_settings, LLM(settings.model) and
\* settings.permissions, or on FileNotFoundError / ValueError
\* ToolPermissions()
InitialPermissions(file) ==
    IF file.exists /\ file.model \in LLMValues
    THEN file.permissions
    ELSE ToolPermissions(FALSE, FALSE, FALSE)

\* permission_map of both handlers
permission_map ==
    [file_operations |-> "allow_file_operations",
     shell_commands |-> "allow_shell_commands",
     network_access |-> "allow_network_access"]

\* what the user writes after /enable or /disable
PermissionWords == DOMAIN permission_map \cup {"camera"}

\* _handle_enable_permission and _handle_disable_permission, which differ
\* in the value they set: an unknown word is reported; otherwise the
\* settings are loaded from the file (FileNotFoundError is caught: nothing
\* changes), the flag is set in them, they are saved and their permissions
\* become the executor's
_handle_permission(word, value, file, perms) ==
    IF word \notin DOMAIN permission_map
    THEN [file |-> file, permissions |-> perms]
    ELSE IF ~file.exists
    THEN [file |-> file, permissions |-> perms]
    ELSE LET saved_settings ==
                [file EXCEPT !.permissions[permission_map[word]] = value]
         IN  [file |-> saved_settings,
              permissions |-> saved_settings.permissions]

CommandLine(verb, word) == "/" \o verb \o " " \o word

\* process_input and handle_command for /enable <word> or /disable <word>
\* typed between two turns
PermissionCommand(verb, word) ==
    /\ pc = "idle"
    /\ Len(lines) < MaxCommands
    /\ lines' = Append(lines, [text |-> CommandLine(verb, word),
                               to |-> "command"])
    /\ LET e == _handle_permission(word, verb = "enable", settings,
                                   permissions)
       IN  /\ settings' = e.file
           /\ permissions' = e.permissions
    /\ UNCHANGED <<kind, tool_registry, has_registry, has_executor,
                   is_subagent, on_conversation_update, on_tool_call,
                   conversation_history, iteration,
                   max_iterations, batch_vars, tool_call_events, stream_vars,
                   outcome, raise_cause, result, provider_calls, updates,
                   saved, returns, turns, granted, start_len, host_vars,
                   task_vars, wired, is_in_plan_mode, tool_pc, tool_request,
                   tool_out, invoked, executions, registered,
                   pending_question_event, pending_question_answer,
                   question_events, waiters, pc>>

----------------------------------------------------------------------------
(* ToolRegistry on its own: src/tools/registry.py *)

\* the tools handed to register: two of them share the name bash
RegisteredTools == {ReadTool, WriteTool, EditTool, BashTool(10), BashTool(30)}

\* registry.register(tool)
Register(tool) ==
    /\ Len(registered) < MaxRegistered
    /\ tool_registry' = register(tool_registry, tool)
    /\ registered' = Append(registered, tool)
    /\ UNCHANGED <<kind, has_registry, permissions, has_executor, is_subagent,
                   on_conversation_update, on_tool_call,
                   conversation_history, pc, iteration, max_iterations,
                   batch_vars, tool_call_events, stream_vars, outcome,
                   raise_cause, result, provider_calls, updates, saved,
                   returns, turns, granted, start_len, host_vars, task_vars,
                   wired, is_in_plan_mode, tool_pc, tool_request, tool_out,
                   invoked, executions, wait_vars, settings>>

----------------------------------------------------------------------------
(* The specification *)

\* the TUI has handled no key and no overlapping chat runs (also: the
\* agent is not inside a CodeAgentTUI)
HostIdle ==
    /\ second_pc = "idle"
    /\ second_slot = 0
    /\ seen = <<>>
    /\ batch_permissions = None
    /\ keys = 0

\* no TaskTool.execute is modelled
TaskUnused ==
    /\ task_pc = "none"
    /\ task = None
    /\ events = <<>>
    /\ task_result = None
    /\ providers_built = 0
    /\ subagents_built = 0
    /\ parent = None

\* CodeAgentTUI.__init__: no question is pending
NoneWaiting ==
    /\ pending_question_event = 0
    /\ pending_question_answer = <<>>
    /\ question_events = <<>>
    /\ waiters = <<>>
    /\ lines = <<>>

\* no interactive tool and no registry is exercised on its own
ToolsUnused ==
    /\ wired = InteractiveTools
    /\ is_in_plan_mode = FALSE
    /\ tool_pc = "idle"
    /\ tool_request = NoRequest
    /\ tool_out = NoOutcome
    /\ invoked = <<>>
    /\ executions = 0
    /\ registered = <<>>
    /\ NoneWaiting
    /\ settings = NoSettings

\* an agent before its first turn
Constructed(a) ==
    /\ kind = a.kind
    /\ tool_registry = a.tool_registry
    /\ has_registry = a.has_registry
    /\ permissions = a.permissions
    /\ has_executor = a.has_executor
    /\ is_subagent = a.is_subagent
    /\ on_conversation_update = a.on_conversation_update
    /\ on_tool_call = a.on_tool_call

\* no turn has run
Fresh ==
    /\ conversation_history = <<>>
    /\ pc = "idle"
    /\ iteration = 0
    /\ max_iterations = 0
    /\ slots = <<>>
    /\ completion = <<>>
    /\ tool_results = <<>>
    /\ tool_call_events = <<>>
    /\ full_response = ""
    /\ yielded = <<>>
    /\ outcome = "none"
    /\ raise_cause = None
    /\ result = None
    /\ provider_calls = 0
    /\ updates = 0
    /\ saved = <<>>
    /\ returns = 0
    /\ turns = 0
    /\ granted = 0
    /\ start_len = 0

Init ==
    /\ \E a \in Agents : Constructed(a)
    /\ Fresh
    /\ HostIdle
    /\ TaskUnused
    /\ ToolsUnused

Next ==
    \/ \E u \in UserInputs, k \in 0..MaxIter : ChatStart(u, k)
    \/ ProviderRaises
    \/ \E r \in Responses : ProviderResponds(r)
    \/ \E i \in 1..MaxBatch, t \in ToolOutputs : ToolReturns(i, t)
    \/ \E i \in 1..MaxBatch : ToolRaises(i)
    \/ GatherRaises
    \/ BatchAppended
    \/ \E u \in UserInputs : StreamStart(u)
    \/ \E c \in Fragments : StreamChunk(c)
    \/ StreamEnds
    \/ StreamRaises

Spec == Init /\ [][Next]_vars

\* the agent alone, with a host that also clears the history between turns
ClearNext == Next \/ ClearHistory

ClearSpec == Init /\ [][ClearNext]_vars

\* CodeAgentTUI.__init__: the TUI's agent, nothing typed yet
TuiInit ==
    /\ \E p \in SettingsPermissions : Constructed(TuiAgent(p))
    /\ Fresh
    /\ HostIdle
    /\ TaskUnused
    /\ ToolsUnused

\* the TUI: process_input starts chat (the TUI's agent has a registry, so
\* it never streams); no call of TuiRequestedCalls makes json.loads raise,
\* so the gather of a batch never raises here
TuiNext ==
    \/ \E u \in UserInputs, k \in 1..MaxIter : ChatStart(u, k)
    \/ ProviderRaises
    \/ \E r \in FinalResponses : ProviderResponds(r)
    \/ \E r \in TuiCallResponses : TuiProviderResponds(r)
    \/ \E i \in 1..MaxBatch, t \in ToolOutputs :
            i # second_slot /\ ToolReturns(i, t)
    \/ \E i \in 1..MaxBatch : i # second_slot /\ ToolRaises(i)
    \/ BatchAppended
    \/ \E c \in SyncCommands : KeyCommand(c)
    \/ \E u \in UserInputs : OverlapStart(u)
    \/ \E r \in FinalResponses : OverlapResponds(r)
    \/ OverlapRaises

TuiSpec == TuiInit /\ [][TuiNext]_vars

\* a TaskTool as constructed (by the TUI: is_subagent false, with the
\* callback), no execute yet, no subagent yet
TaskInit ==
    /\ Constructed(NoAgent)
    /\ Fresh
    /\ HostIdle
    /\ task_pc = "idle"
    /\ \E s \in BOOLEAN, cb \in BOOLEAN :
            task = [is_subagent |-> s, has_callback |-> cb,
                    subagent_type |-> None, model |-> None,
                    task_prompt |-> None]
    /\ events = <<>>
    /\ task_result = None
    /\ providers_built = 0
    /\ subagents_built = 0
    /\ parent \in Parents
    /\ ToolsUnused

\* one execute and the chat of the subagent it runs; the subagent's
\* provider is asked at most MaxIter times
TaskNext ==
    \/ \E t \in SubagentTypes, m \in Models : TaskExecute(t, m)
    \/ \E t \in SubagentTypes : FactoryCall(t)
    \/ StartCallbackRaises
    \/ ProviderFactoryRaises
    \/ SubagentStarts
    \/ task_pc = "chatting" /\ provider_calls < MaxIter /\ ProviderRaises
    \/ \E r \in Responses :
            /\ task_pc = "chatting"
            /\ provider_calls + (IF r.tool_calls = <<>> THEN 0 ELSE 1) < MaxIter
            /\ ProviderResponds(r)
    \/ \E r \in Responses :
            provider_calls + 1 < MaxIter /\ RelayRaisesBefore(r)
    \/ \E i \in 1..MaxBatch, t \in ToolOutputs :
            task_pc = "chatting" /\ ToolReturns(i, t)
    \/ \E i \in 1..MaxBatch : task_pc = "chatting" /\ ToolRaises(i)
    \/ task_pc = "chatting" /\ GatherRaises
    \/ task_pc = "chatting" /\ BatchAppended
    \/ RelayRaisesAfter
    \/ SubagentReturned
    \/ CompleteCallbackReturns
    \/ CompleteCallbackRaises
    \/ SubagentRaised
    \/ ExceptClause
    \/ ErrorCallbackReturns
    \/ ErrorCallbackRaises

TaskSpec == TaskInit /\ [][TaskNext]_vars

\* what the provider of a subagent answers while the iteration caps are
\* explored: a final answer, a bash call, or a bash call whose arguments
\* json.loads refuses with ValueError
CapResponses ==
    {AssistantMessage("Found 2 files.", <<>>),
     AssistantMessage(None, WithIds(<<FunctionCall("bash", ArgsObject)>>)),
     AssistantMessage(None, WithIds(<<FunctionCall("bash", ArgsOverflow)>>))}

\* one execute whose subagent runs up to the cap the factory gave it; every
\* provider call, tool execution and callback returns
CapNext ==
    \/ \E t \in SubagentTypes, m \in Models : TaskExecute(t, m)
    \/ SubagentStarts
    \/ \E r \in CapResponses : task_pc = "chatting" /\ ProviderResponds(r)
    \/ \E t \in ToolOutputs : task_pc = "chatting" /\ ToolReturns(1, t)
    \/ task_pc = "chatting" /\ GatherRaises
    \/ task_pc = "chatting" /\ BatchAppended
    \/ SubagentReturned
    \/ CompleteCallbackReturns
    \/ SubagentRaised
    \/ ExceptClause
    \/ ErrorCallbackReturns

\* every call that is awaited returns, and the event loop runs what is ready
CapSpec == TaskInit /\ [][CapNext]_vars /\ WF_vars(CapNext)

\* ToolRegistry.__init__: an empty registry
RegistryInit ==
    /\ Constructed(NoAgent)
    /\ Fresh
    /\ HostIdle
    /\ TaskUnused
    /\ ToolsUnused

RegistryNext == \E tool \in RegisteredTools : Register(tool)

RegistrySpec == RegistryInit /\ [][RegistryNext]_vars

\* the four interactive tools, each constructed with or without its
\* callback, in a host that is not in plan mode
InteractiveInit ==
    /\ Constructed(NoAgent)
    /\ Fresh
    /\ HostIdle
    /\ TaskUnused
    /\ wired \in SUBSET InteractiveTools
    /\ is_in_plan_mode = FALSE
    /\ tool_pc = "idle"
    /\ tool_request = NoRequest
    /\ tool_out = NoOutcome
    /\ invoked = <<>>
    /\ executions = 0
    /\ registered = <<>>
    /\ NoneWaiting
    /\ settings = NoSettings

InteractiveNext ==
    \/ \E questions \in AskInputs : AskExecute(questions)
    \/ \E answers \in CallbackAnswers : AskCallbackReturns(answers)
    \/ AskCallbackRaises
    \/ \E n \in 1..2 : \E typed \in [1..n -> TypedLines] : AskHostAnswers(typed)
    \/ EnterExecute
    \/ \E answer \in PlanAnswers : EnterAnswered(answer)
    \/ ExitExecute
    \/ \E command \in CommandInputs : SlashExecute(command)
    \/ \E output \in HandlerOutputs : SlashHandlerReturns(output)
    \/ SlashHandlerRaises

InteractiveSpec == InteractiveInit /\ [][InteractiveNext]_vars

\* the TUI with one batch of calls that wait for the user
WaitingInit ==
    /\ Constructed(NoAgent)
    /\ Fresh
    /\ HostIdle
    /\ TaskUnused
    /\ ToolsUnused

WaitingNext ==
    \/ \E batch \in WaitingBatches : DispatchWaiting(batch)
    \/ \E line \in {"yes", "2"} : SubmitLine(line)
    \/ \E i \in 1..MaxWaiting : Resume(i)

\* the event loop runs every coroutine whose Event is set
WaitingSpec ==
    WaitingInit /\ [][WaitingNext]_vars
        /\ WF_vars(\E i \in 1..MaxWaiting : Resume(i))

\* the TUI started on a workspace whose settings file is there or not
SettingsInit ==
    /\ settings \in SettingsFiles
    /\ Constructed(TuiAgent(InitialPermissions(settings)))
    /\ Fresh
    /\ HostIdle
    /\ TaskUnused
    /\ wired = InteractiveTools
    /\ is_in_plan_mode = FALSE
    /\ tool_pc = "idle"
    /\ tool_request = NoRequest
    /\ tool_out = NoOutcome
    /\ invoked = <<>>
    /\ executions = 0
    /\ registered = <<>>
    /\ NoneWaiting

\* what the provider answers here: a final answer, a call of a tool that
\* needs shell commands, a call of one that needs file operations
SettingsResponses ==
    {AssistantMessage("Found 2 files.", <<>>),
     AssistantMessage(None, WithIds(<<FunctionCall("bash", ArgsObject)>>)),
     AssistantMessage(None, WithIds(<<FunctionCall("write", ArgsObject)>>))}

\* turns of one provider call each, and permission commands between them
SettingsNext ==
    \/ \E u \in UserInputs : ChatStart(u, 1)
    \/ \E r \in SettingsResponses : ProviderResponds(r)
    \/ \E t \in ToolOutputs : ToolReturns(1, t)
    \/ BatchAppended
    \/ \E verb \in {"enable", "disable"}, word \in PermissionWords :
            PermissionCommand(verb, word)

SettingsSpec == SettingsInit /\ [][SettingsNext]_vars

----------------------------------------------------------------------------
(* Vocabulary of the properties *)

IsCallMessage(m) == m.role = "assistant" /\ m.tool_calls # <<>>

\* the number of tool-role messages directly after position j
GroupLen(h, j) ==
    CHOOSE n \in 0..(Len(h) - j) :
        /\ \A i \in 1..n : h[j + i].role = "tool"
        /\ j + n = Len(h) \/ h[j + n + 1].role # "tool"

Count(seq, x) == Cardinality({i \in 1..Len(seq) : seq[i] = x})

IsPermutation(a, b) ==
    /\ Len(a) = Len(b)
    /\ \A i \in 1..Len(a) : Count(a, a[i]) = Count(b, a[i])

CallIdsOf(m) == [i \in 1..Len(m.tool_calls) |-> m.tool_calls[i].id]

AnswerIds(h, j) == [i \in 1..GroupLen(h, j) |-> h[j + i].tool_call_id]

\* the message at j is followed by exactly one answer per call
Answered(h, j) == IsPermutation(CallIdsOf(h[j]), AnswerIds(h, j))

\* every tool-role message answers a call of the assistant message that
\* immediately precedes its group
EveryToolMessageAnswers(h) ==
    \A t \in 1..Len(h) :
        h[t].role = "tool" =>
            \E j \in 1..(t - 1) :
                /\ IsCallMessage(h[j])
                /\ \A i \in (j + 1)..t : h[i].role = "tool"
                /\ \E c \in 1..Len(h[j].tool_calls) :
                        h[j].tool_calls[c].id = h[t].tool_call_id

\* no batch is between its dispatch and the append of its results
Settled == pc # "executing"

----------------------------------------------------------------------------
(* C1 *)

\* C1, as claimed: whenever no batch is in flight, every assistant message
\* with N tool calls is followed by exactly N tool-role messages whose ids
\* are a permutation of its call ids, and every tool-role message answers
\* the assistant message before its group -- for every agent, with or
\* without a tool executor.
C1_EveryCallMessageAnswered ==
    Settled =>
        /\ \A j \in 1..Len(conversation_history) :
                IsCallMessage(conversation_history[j]) =>
                    Answered(conversation_history, j)
        /\ EveryToolMessageAnswers(conversation_history)

----------------------------------------------------------------------------
(* C2 *)

\* C2, as claimed: when tool.execute of a call raised, that call has a
\* complete ToolResult with is_error true, chat does not raise out of that
\* batch, and once the batch is no longer in flight the result is in the
\* history as a tool-role message.
C2_ChatSurvivesToolFailure ==
    \A i \in 1..Len(slots) :
        slots[i].raised =>
            /\ slots[i].state = "done"
            /\ slots[i].result.is_error
            /\ slots[i].result.tool_call_id = slots[i].tool_call.id
            /\ raise_cause # "dispatch"
            /\ Settled =>
                \E t \in 1..Len(conversation_history) :
                    /\ conversation_history[t].role = "tool"
                    /\ conversation_history[t].tool_call_id =
                            slots[i].tool_call.id
                    /\ conversation_history[t].content =
                            "Error executing tool"

----------------------------------------------------------------------------
(* C3 *)

\* the last turn was a chat, it is over, and in it the provider answered
\* every generate call with a request for tool calls
ChatOverAlwaysTools ==
    /\ pc = "idle"
    /\ outcome \in {"returned", "raised"}
    /\ raise_cause # "provider"
    /\ ~(Last(conversation_history).role = "assistant"
            /\ Last(conversation_history).tool_calls = <<>>)

\* C3, as claimed, for an agent with a tool executor: a chat with
\* max_iterations = k in which the provider always requests a tool call
\* makes exactly k provider calls and then returns the content of the last
\* entry of the history without raising; no chat makes more than
\* max_iterations provider calls.
C3_IterationCap ==
    /\ provider_calls <= max_iterations
    /\ (has_executor /\ ChatOverAlwaysTools) =>
            /\ outcome = "returned"
            /\ provider_calls = max_iterations
            /\ result = Last(conversation_history).content

----------------------------------------------------------------------------
(* C4 *)

\* the tool of a slot's call, and whether the active permissions deny it
ToolOf(slot) == get(tool_registry, slot.tool_call.function.name)

Denied(slot) ==
    /\ ToolOf(slot) # NoTool
    /\ ToolOf(slot).required_permission # None
    /\ ~permissions[ToolOf(slot).required_permission]

\* C4: a call of a tool whose required_permission names a flag that is
\* false in the executor's permissions has a ToolResult with is_error true,
\* and tool.execute was not invoked for it.
C4_PermissionGating ==
    \A i \in 1..Len(slots) :
        Denied(slots[i]) =>
            /\ slots[i].state = "done"
            /\ slots[i].result.is_error
            /\ slots[i].result.tool_call_id = slots[i].tool_call.id
            /\ \A n \in 1..Len(slots[i].trail) :
                    slots[i].trail[n] # "execute"
            /\ ~slots[i].raised

\* C4, witness: a bash call was dispatched with allow_shell_commands false,
\* and the batch went through.
C4_Witness ==
    /\ Settled
    /\ ~permissions.allow_shell_commands
    /\ \E i \in 1..Len(slots) :
            /\ slots[i].tool_call.function.name = "bash"
            /\ Denied(slots[i])
            /\ slots[i].result.content = "Error: Permission denied"

----------------------------------------------------------------------------
(* C5 *)

\* C5: an agent built by SubagentFactory.create_subagent, for either kind,
\* has is_subagent true and no task tool in its registry, at construction
\* and in every state its operations reach.
C5_NoTaskToolInSubagent ==
    kind \in SubagentKinds =>
        /\ is_subagent
        /\ "task" \notin ToolNames(tool_registry)
        /\ \A i \in 1..Len(tool_registry) : tool_registry[i] # TaskTool

\* C5, witness: a plan subagent's model asked for the task tool, the call
\* was refused as unknown and the chat returned.
C5_Witness ==
    /\ kind = "plan"
    /\ outcome = "returned"
    /\ \E i \in 1..Len(slots) :
            /\ slots[i].tool_call.function.name = "task"
            /\ slots[i].result.content = "Error: Unknown tool"

----------------------------------------------------------------------------
(* C6 *)

\* execute_tool_calls has returned for the batch of the slots
Gathered ==
    /\ Settled
    /\ Len(slots) > 0
    /\ \A i \in 1..Len(slots) : slots[i].state = "done"

\* C6: the results execute_tool_calls returns are in the order of the
\* calls, result i carrying the id and name of call i whatever order the
\* calls completed in, and chat appended the tool-role messages to the
\* history in that order, directly after the message that made the calls.
C6_BatchOrder ==
    Gathered =>
        /\ Len(tool_results) = Len(slots)
        /\ \A i \in 1..Len(slots) :
                /\ tool_results[i].tool_call_id = slots[i].tool_call.id
                /\ tool_results[i].tool_name =
                        slots[i].tool_call.function.name
        /\ \E j \in 1..Len(conversation_history) :
                /\ IsCallMessage(conversation_history[j])
                /\ Len(conversation_history[j].tool_calls) = Len(slots)
                /\ j + Len(slots) <= Len(conversation_history)
                /\ \A i \in 1..Len(slots) :
                    /\ conversation_history[j].tool_calls[i] =
                            slots[i].tool_call
                    /\ conversation_history[j + i].role = "tool"
                    /\ conversation_history[j + i].tool_call_id =
                            slots[i].tool_call.id
                    /\ conversation_history[j + i].content =
                            slots[i].result.content

\* C6, witness: the second call of a batch completed before the first and
\* the batch's results were appended.
C6_Witness ==
    /\ Gathered
    /\ completion = <<2, 1>>
    /\ slots[1].result.content # slots[2].result.content

----------------------------------------------------------------------------
(* C7 *)

\* C7, as claimed: execute_tool_calls never raises: no coroutine of a batch
\* ends with an exception, and chat is never left by an exception that
\* comes out of the dispatch.
C7_ExecutorNeverRaises ==
    /\ \A i \in 1..Len(slots) : slots[i].state # "raised"
    /\ raise_cause # "dispatch"

----------------------------------------------------------------------------
(* C8 *)

Steps(slot) == {slot.trail[n] : n \in 1..Len(slot.trail)}

\* the steps of execute_tool_call in their order, cut at any point
OrderedTrails ==
    {<<"lookup">>, <<"lookup", "permission">>, <<"lookup", "parse">>,
     <<"lookup", "permission", "parse">>,
     <<"lookup", "parse", "execute">>,
     <<"lookup", "permission", "parse", "execute">>}

\* C8: per call the executor looks the tool up, checks the permission,
\* parses the arguments and executes, in this order, and stops at the
\* first failure: an unknown name gives the unknown-tool error with no
\* permission check; a denied permission gives the permission error
\* whatever the arguments are; execute is invoked only when the lookup,
\* the permission check and the parse succeeded.
C8_CheckOrder ==
    \A i \in 1..Len(slots) :
        LET s == slots[i]
            parsed == json_loads(s.tool_call.function.arguments)
        IN  /\ s.trail \in OrderedTrails
            /\ ToolOf(s) = NoTool =>
                    /\ s.trail = <<"lookup">>
                    /\ s.result.content = "Error: Unknown tool"
            /\ Denied(s) =>
                    /\ s.trail = <<"lookup", "permission">>
                    /\ s.result.content = "Error: Permission denied"
            /\ (ToolOf(s) # NoTool /\ ~Denied(s)
                    /\ parsed = "JSONDecodeError") =>
                    /\ Last(s.trail) = "parse"
                    /\ s.result.content = "Error: Invalid JSON arguments"
            /\ "execute" \in Steps(s) <=>
                    (ToolOf(s) # NoTool /\ ~Denied(s) /\ parsed = "value")

\* C8, witness: a call with a denied permission and malformed arguments
\* was answered with the permission error.
C8_Witness ==
    /\ Settled
    /\ \E i \in 1..Len(slots) :
            /\ Denied(slots[i])
            /\ json_loads(slots[i].tool_call.function.arguments) =
                    "JSONDecodeError"
            /\ slots[i].result.content = "Error: Permission denied"

----------------------------------------------------------------------------
(* C9 *)

\* the last turn was a chat that returned a response without tool calls
ChatEndedWithAnswer ==
    /\ pc = "idle"
    /\ second_pc = "idle"
    /\ outcome = "returned"
    /\ keys = 0
    /\ Len(conversation_history) > 0
    /\ Last(conversation_history).role = "assistant"
    /\ Last(conversation_history).tool_calls = <<>>

\* 1 + b for every message with b tool calls from position j on
RECURSIVE RoundsFrom(_, _)
RoundsFrom(h, j) ==
    IF j > Len(h) THEN 0
    ELSE (IF IsCallMessage(h[j]) THEN 1 + Len(h[j].tool_calls) ELSE 0)
            + RoundsFrom(h, j + 1)

\* a chat on an empty history: one tool call in turn 1, an answer in turn 2
OneCallScenario ==
    /\ ChatEndedWithAnswer
    /\ start_len = 0
    /\ provider_calls = 2
    /\ Len(slots) = 1

Roles(h) == [i \in 1..Len(h) |-> h[i].role]

\* what chat appended: the user message, the rounds, the final response
AppendedCount ==
    ChatEndedWithAnswer =>
        Len(conversation_history) - start_len =
            1 + RoundsFrom(conversation_history, start_len + 1) + 1

FourEntries ==
    OneCallScenario =>
        Roles(conversation_history) =
            <<"user", "assistant", "tool", "assistant">>

\* C9, as claimed, with "the content of the last one" read as the string
\* chat makes of it (the empty string for a response without content): a
\* chat during which the user typed nothing and that ends with a response
\* without tool calls after rounds with b1..bn tool calls appended
\* 1 + (1+b1) + ... + (1+bn) + 1 messages and returns the content of the
\* last one; with one tool call in turn 1 and the answer in turn 2 on an
\* empty history the history is the 4 entries user, assistant, tool,
\* assistant.
C9_ReturnsLastContent ==
    /\ AppendedCount
    /\ FourEntries
    /\ ChatEndedWithAnswer =>
            result = IF Last(conversation_history).content = None THEN ""
                     ELSE Last(conversation_history).content

----------------------------------------------------------------------------
(* C10 *)

\* a turn ended normally: chat returned or stream_chat ran to its end
TurnCompleted == pc = "idle" /\ outcome \in {"returned", "streamed"}

\* C10, as claimed: with the callback set, whenever the history ends with
\* an appended tool-result batch, or with the final or streamed response
\* of a completed turn, the callback has been invoked with that history.
C10_UpdateAfterEveryMutation ==
    on_conversation_update =>
        /\ (Settled /\ Len(conversation_history) > 0
                /\ Last(conversation_history).role = "tool") =>
                saved = conversation_history
        /\ TurnCompleted => saved = conversation_history

\* C10, amended: the callback, when set, is invoked once per chat call that
\* returns and once per stream_chat that runs to its end, at that moment
\* and with the full history; while a turn is in flight, and so after a
\* tool-result batch that another provider call follows, the history is
\* ahead of what the callback received last; a turn that raises invokes
\* nothing; an agent without the callback invokes nothing.
C10_UpdateOncePerCompletedTurn ==
    /\ on_conversation_update =>
            /\ updates = returns
            /\ TurnCompleted => saved = conversation_history
            /\ pc # "idle" => Len(saved) < Len(conversation_history)
    /\ ~on_conversation_update => updates = 0 /\ saved = <<>>

\* C10, witness: two turns completed, the second a chat that appended a
\* tool-result batch before its final response, and the callback ran twice.
C10_Witness ==
    /\ on_conversation_update
    /\ TurnCompleted
    /\ updates = 2
    /\ \E j \in (start_len + 1)..Len(conversation_history) :
            conversation_history[j].role = "tool"


----------------------------------------------------------------------------
(* C11, C12, C13: the agent inside the TUI (TuiSpec) *)

\* h is an initial segment of g
IsPrefix(h, g) ==
    /\ Len(h) <= Len(g)
    /\ \A i \in 1..Len(h) : h[i] = g[i]

\* C11, as claimed: while a chat is in flight and the user does not clear
\* the history from the keyboard, every step leaves the history as it was
\* or extends it: the earlier history is a prefix of the later one.
C11_AppendOnlyInFlight ==
    [][(pc # "idle" /\ keys' = keys)
            => IsPrefix(conversation_history, conversation_history')]_vars

\* C12, as claimed: at most one chat / stream_chat invocation on the agent
\* is in flight in every reachable state.
C12_TurnsSequential == InFlight <= 1

\* C13, as claimed: while a batch is being dispatched, every call of the
\* batch that was permission-checked was checked against the flag values
\* that held when execute_tool_calls was called.
C13_FlagsFixedDuringDispatch ==
    pc = "executing" =>
        \A i \in 1..Len(seen) : seen[i] \in {<<>>, <<batch_permissions>>}


----------------------------------------------------------------------------
(* C14 .. C20: TaskTool.execute and the subagent it runs (TaskSpec) *)

\* C14, as claimed: TaskTool.execute never raises, whichever step fails:
\* it always ends by returning a text.
C14_ExecuteNeverRaises == task_pc # "raised"

\* a start event first, no second start, and a complete or error event
\* only as the last event
OrderedLifecycle(log) ==
    log # <<>> =>
        /\ log[1].type = "start"
        /\ \A i \in 2..Len(log) :
                /\ log[i].type # "start"
                /\ log[i].type \in {"complete", "error"} => i = Len(log)

\* C15, as claimed: the events an execution sends to the host are one
\* start event, then tool_call events, then one terminal event, complete
\* or error and never both, with nothing after it; an execution that sent
\* its start event and has ended has sent its terminal event.
C15_LifecycleOrdered ==
    /\ OrderedLifecycle(LifecycleLog)
    /\ (events # <<>> /\ task_pc \in {"returned", "raised"}) =>
            LifecycleLog[Len(LifecycleLog)].type \in {"complete", "error"}


\* the tool_call events among the events the host received
RelayedEvents == SelectSeq(LifecycleLog, LAMBDA e : e.type = "tool_call")

\* C16, as claimed: every relayed tool_call event is tagged with the kind
\* of the subagent that produced it.
C16_RelayTaggedWithKind ==
    \A i \in 1..Len(RelayedEvents) :
        RelayedEvents[i].subagent_type = task.subagent_type

\* C16, amended: when the TaskTool has a callback, every notification of
\* the subagent is relayed, in order, as a tool_call event that carries the
\* tool calls and the results (no results before the execution) and no
\* subagent kind: every assistant message with tool calls the subagent's
\* executor dispatched has its pre-execution event, every appended batch
\* its post-execution event with the results.
C16_RelayCarriesCallsAndResults ==
    (task_pc \in {"chatting", "completing", "failed", "reporting",
                  "returned", "raised"} /\ task.has_callback) =>
        /\ Len(RelayedEvents) = Len(tool_call_events)
        /\ \A i \in 1..Len(RelayedEvents) :
                /\ RelayedEvents[i].notification = <<tool_call_events[i]>>
                /\ RelayedEvents[i].subagent_type = None
        /\ \A j \in 1..Len(conversation_history) :
                IsCallMessage(conversation_history[j]) =>
                    \E i \in 1..Len(RelayedEvents) :
                        /\ RelayedEvents[i].notification[1].calls =
                                conversation_history[j].tool_calls
                        /\ ~RelayedEvents[i].notification[1].with_results
        /\ (Len(conversation_history) > 0
                /\ Last(conversation_history).role = "tool") =>
                    \E i \in 1..Len(RelayedEvents) :
                        /\ RelayedEvents[i].notification[1].with_results
                        /\ RelayedEvents[i].notification[1].results =
                                tool_results
                        /\ i > 1
                        /\ ~RelayedEvents[i - 1].notification[1].with_results
                        /\ RelayedEvents[i - 1].notification[1].calls =
                                RelayedEvents[i].notification[1].calls

\* C16, witness: a subagent's batch went through and the host received
\* the start event, the pre-execution and the post-execution event.
C16_Witness ==
    /\ task.has_callback
    /\ task_pc = "chatting"
    /\ Len(RelayedEvents) = 2
    /\ RelayedEvents[2].notification[1].with_results
    /\ Len(RelayedEvents[2].notification[1].results) = 2
    /\ Last(conversation_history).role = "tool"


\* execute was called and is past its first step
Executing ==
    task_pc \in {"starting", "chatting", "completing", "failed",
                 "reporting", "returned", "raised"}

\* C17: a TaskTool with is_subagent true refuses at once: execute has
\* returned the refusal text, the host received no lifecycle event, the
\* provider factory was not called and no subagent was constructed.
C17_SubagentToolRefuses ==
    (task.is_subagent /\ Executing) =>
        /\ task_pc = "returned"
        /\ task_result = RefusalText
        /\ LifecycleLog = <<>>
        /\ events = <<>>
        /\ providers_built = 0
        /\ subagents_built = 0
        /\ kind = "none"
        /\ pc = "idle" /\ turns = 0

\* C17, witness: a TaskTool with is_subagent true and a callback was asked
\* for an explore subagent and has returned.
C17_Witness ==
    /\ task.is_subagent
    /\ task.has_callback
    /\ task.subagent_type = "explore"
    /\ task_pc = "returned"

\* the messages of a history, as a set
MessagesOf(h) == {h[i] : i \in 1..Len(h)}

\* C18: the subagent's history starts with a user message holding exactly
\* task_prompt and has nothing before it; no message of the parent's
\* history is in the message list a provider call of the subagent gets;
\* and no step of the execution changes the parent's history, registry or
\* permissions.
C18_SubagentIsolated ==
    /\ [](task_pc \in {"chatting", "completing", "failed", "reporting",
                       "returned", "raised"} /\ subagents_built = 1 =>
            /\ start_len = 0
            /\ conversation_history[1] = UserMessage(task.task_prompt)
            /\ MessagesOf(OutboundMessages(conversation_history))
                    \cap MessagesOf(parent.conversation_history) = {})
    /\ [][parent' = parent]_vars

\* C18, witness: the subagent ran a batch and answered, execute returned.
C18_Witness ==
    /\ task_pc = "returned"
    /\ subagents_built = 1
    /\ Len(conversation_history) = 5
    /\ conversation_history[1].content = TaskPrompt
    /\ Len(parent.conversation_history) = 2

\* C19: the factory's profiles: explore has the tools {read, bash}, plan
\* has {read, write, bash, edit}, both have file operations and shell
\* commands allowed and network access not, and explore's iteration cap is
\* smaller than plan's; the agent the factory built is its profile.
C19_FactoryProfiles ==
    /\ LET explore == create_subagent("explore")
           plan == create_subagent("plan")
       IN  /\ ToolNames(explore.agent.tool_registry) = {"read", "bash"}
           /\ ToolNames(plan.agent.tool_registry) =
                    {"read", "write", "bash", "edit"}
           /\ explore.agent.permissions = ToolPermissions(TRUE, TRUE, FALSE)
           /\ plan.agent.permissions = ToolPermissions(TRUE, TRUE, FALSE)
           /\ explore.max_iterations < plan.max_iterations
    /\ subagents_built = 1 =>
        /\ kind \in SubagentKinds
        /\ ToolNames(tool_registry) =
                IF kind = "explore" THEN {"read", "bash"}
                ELSE {"read", "write", "bash", "edit"}
        /\ permissions = ToolPermissions(TRUE, TRUE, FALSE)
        /\ max_iterations = IF kind = "explore" THEN 5 ELSE 15
        /\ has_executor

\* C19, witness: an explore subagent ran a bash call, which its
\* permissions let through to the tool.
C19_Witness ==
    /\ subagents_built = 1
    /\ kind = "explore"
    /\ pc = "executing"
    /\ \E i \in 1..Len(slots) :
            /\ slots[i].tool_call.function.name = "bash"
            /\ slots[i].state = "done"
            /\ ~slots[i].result.is_error

\* C20: create_subagent called with a kind other than explore and plan
\* raises and constructs no agent; execute called with such a kind returns
\* an error text, and has built no provider and no subagent.
C20_UnknownKindBuildsNothing ==
    (task_pc # "idle" /\ task.subagent_type \notin SubagentKinds) =>
        /\ task_pc \in {"factory_raised", "returned"}
        /\ task_pc = "returned" =>
                task_result \in {InvalidKindText, RefusalText}
        /\ events = <<>>
        /\ providers_built = 0
        /\ subagents_built = 0
        /\ kind = "none"
        /\ pc = "idle" /\ turns = 0

\* C20, witness: the factory was called with an unknown kind and raised.
C20_Witness ==
    /\ task_pc = "factory_raised"
    /\ task.subagent_type = "review"


----------------------------------------------------------------------------
(* C27, C28, C30: stream_chat, provider failures, tool-call notifications *)

\* the fragments of a sequence put together in order
RECURSIVE Join(_)
Join(fragments) ==
    IF fragments = <<>> THEN ""
    ELSE Head(fragments) \o Join(Tail(fragments))

\* C27: while stream_chat runs, the history is what it was plus the user
\* message, and the accumulator is the concatenation of the fragments
\* forwarded so far, in their order; when the stream has ended, exactly one
\* assistant message was appended after the user message, without tool
\* calls, its content the concatenation of all fragments in order; and no
\* step of stream_chat dispatches a tool call, notifies about one or calls
\* provider.generate.
C27_StreamAppendsConcatenation ==
    /\ [](pc = "streaming" =>
            /\ Len(conversation_history) = start_len + 1
            /\ Last(conversation_history).role = "user"
            /\ full_response = Join(yielded))
    /\ []((pc = "idle" /\ outcome = "streamed") =>
            /\ Len(conversation_history) = start_len + 2
            /\ conversation_history[start_len + 1].role = "user"
            /\ Last(conversation_history) =
                    AssistantMessage(Join(yielded), <<>>))
    /\ [][pc = "streaming" =>
            /\ UNCHANGED <<batch_vars, tool_call_events, provider_calls>>
            /\ IsPrefix(yielded, yielded')
            /\ \A i \in 1..Len(conversation_history') :
                    i > start_len + 1 =>
                        conversation_history'[i].role = "assistant"]_vars

\* C27, witness: a stream of two fragments ended and "Found 2" was appended.
C27_Witness ==
    /\ pc = "idle"
    /\ outcome = "streamed"
    /\ yielded = <<"Found ", "2">>
    /\ Last(conversation_history).content = "Found 2"

\* C28: a step in which the provider call fails (provider.generate is
\* called and no response is appended, or the stream stops without the
\* assistant message) leaves chat / stream_chat by an exception: nothing is
\* returned, no tool result is made of it, the history keeps what it had,
\* and the invocation is over, so that it makes no further provider call.
C28_ProviderFailurePropagates ==
    /\ [][((pc = "generate" /\ provider_calls' = provider_calls + 1
                /\ conversation_history' = conversation_history)
            \/ (pc = "streaming" /\ pc' = "idle"
                /\ conversation_history' = conversation_history)) =>
            /\ outcome' = "raised"
            /\ raise_cause' = "provider"
            /\ pc' = "idle"
            /\ UNCHANGED <<result, returns, updates, saved, batch_vars,
                           tool_call_events>>]_vars
    /\ [](outcome = "raised" => pc = "idle")

\* C28, witness: the second provider call of a chat failed, after a batch
\* of tool calls had been appended.
C28_Witness ==
    /\ outcome = "raised"
    /\ raise_cause = "provider"
    /\ provider_calls = 2
    /\ Last(conversation_history).role = "tool"

\* C30, as claimed: on_tool_call is invoked exactly twice per batch: while
\* a batch is dispatched the last notification is the one without results
\* for its calls, and whenever no batch is being dispatched the
\* notifications of the chat come in pairs, the first without results, the
\* second with the results for the same calls.
C30_TwoNotificationsPerBatch ==
    (on_tool_call /\ has_executor) =>
        /\ pc = "executing" =>
                /\ Len(tool_call_events) % 2 = 1
                /\ ~Last(tool_call_events).with_results
        /\ pc # "executing" =>
                /\ Len(tool_call_events) % 2 = 0
                /\ \A i \in 1..Len(tool_call_events) :
                        /\ tool_call_events[i].with_results = (i % 2 = 0)
                        /\ i % 2 = 0 =>
                                tool_call_events[i].calls =
                                    tool_call_events[i - 1].calls


----------------------------------------------------------------------------
(* C29: the registry (RegistrySpec) *)

\* the names of a sequence of tools, each once, in the order in which they
\* come first
RECURSIVE FirstOrder(_)
FirstOrder(log) ==
    IF log = <<>> THEN <<>>
    ELSE LET earlier == FirstOrder(SubSeq(log, 1, Len(log) - 1))
             name == log[Len(log)].name
         IN  IF \E i \in 1..Len(earlier) : earlier[i] = name THEN earlier
             ELSE Append(earlier, name)

\* the tool registered last under a name
LastRegistered(log, name) ==
    log[CHOOSE i \in 1..Len(log) :
            /\ log[i].name = name
            /\ \A j \in (i + 1)..Len(log) : log[j].name # name]

\* C29: after any sequence of register calls, get(name) is the tool
\* registered last under that name, get_definitions lists exactly one
\* definition per distinct name, in the order in which the names were
\* first registered, and get of a name that was not registered is nothing.
C29_RegistryLastWinsStableOrder ==
    /\ \A i \in 1..Len(registered) :
            get(tool_registry, registered[i].name) =
                LastRegistered(registered, registered[i].name)
    /\ [i \in 1..Len(tool_registry) |->
            get_definitions(tool_registry)[i].name] = FirstOrder(registered)
    /\ \A name \in {"read", "write", "edit", "bash", "grep"} :
            (\A i \in 1..Len(registered) : registered[i].name # name) =>
                get(tool_registry, name) = NoTool

\* C29, witness: bash was registered, then read, then bash again with
\* another timeout: the listing is bash, read and get("bash") is the second.
C29_Witness ==
    /\ registered = <<BashTool(10), ReadTool, BashTool(30)>>
    /\ get(tool_registry, "bash") = BashTool(30)
    /\ get_definitions(tool_registry) =
            <<to_definition(BashTool(10)), to_definition(ReadTool)>>


----------------------------------------------------------------------------
(* C21 .. C26: the interactive tools (InteractiveSpec) *)

\* a text that reports an error
IsErrorText(text) == Len(text) >= 5 /\ SubSeq(text, 1, 5) = "Error"

\* the callback a tool is constructed with
CallbackOf(tool) ==
    CASE tool = "ask_user_question" -> "on_question_callback"
      [] tool = "enter_plan_mode"   -> "on_enter_plan_mode"
      [] tool = "exit_plan_mode"    -> "on_exit_plan_mode"
      [] tool = "slash_command"     -> "command_handler"

\* how often a callback was called in the execution on record
Calls(callback) ==
    Cardinality({i \in 1..Len(invoked) : invoked[i].callback = callback})

\* the last exchange with the host in the execution on record
LastExchange == invoked[Len(invoked)]

\* C21: every execution of an interactive tool that was constructed without
\* its callback returns an error text, whatever its input: it does not
\* raise, it calls no callback and it changes no state (plan mode, the
\* agent, the position of an execution that is waiting).
C21_UnwiredFailsClosed ==
    [][\A tool \in InteractiveTools \ wired :
          (executions' = executions + 1 /\ tool_out'.tool = tool) =>
              /\ tool_out'.how = "returned"
              /\ IsErrorText(tool_out'.text)
              /\ is_in_plan_mode' = is_in_plan_mode
              /\ tool_pc' = tool_pc
              /\ UNCHANGED agent_vars
              /\ Calls(CallbackOf(tool))' = 0]_vars

\* an option with a label and a description
WellFormedOption(option) ==
    option.t = "dict" /\ HasKey(option, "label") /\ HasKey(option, "description")

\* a question with a non-empty text, a non-empty header of at most 12
\* characters and 2 to 4 options, each with a label and a description
WellFormedQuestion(q) ==
    /\ q.t = "dict"
    /\ LET question_text == Get(q, "question", PyNone)
           header == Get(q, "header", PyNone)
           options == Get(q, "options", PyNone)
       IN  /\ question_text.t = "str" /\ question_text.v # ""
           /\ header.t = "str" /\ header.v # "" /\ Len(header.v) <= 12
           /\ options.t = "list"
           /\ Len(options.v) \in 2..4
           /\ \A j \in 1..Len(options.v) : WellFormedOption(options.v[j])

\* 1 to 4 questions, each well formed
WellFormed(questions) ==
    /\ questions.t = "list"
    /\ Len(questions.v) \in 1..4
    /\ \A i \in 1..Len(questions.v) : WellFormedQuestion(questions.v[i])

\* C22: in an execution of ask_user_question, the callback is called only
\* when the questions are well formed (1 to 4 questions, each with a
\* non-empty text, a non-empty header of at most 12 characters and 2 to 4
\* options that each have a label and a description); when they are not,
\* the execution returns an error text and the callback is not called.
C22_CallbackOnlyForWellFormed ==
    tool_request.tool = "ask_user_question" =>
        /\ Calls("on_question_callback") > 0 => WellFormed(tool_request.arg)
        /\ (tool_pc = "idle" /\ ~WellFormed(tool_request.arg)) =>
              /\ tool_out.how = "returned"
              /\ IsErrorText(tool_out.text)
              /\ Calls("on_question_callback") = 0

\* the header of question number i of the request
HeaderOf(questions, i) == Get(questions.v[i], "header", PyNone).v

\* C23: an execution of ask_user_question never raises; when the callback
\* returned answers, the result is the heading followed by one line
\* "header: answer" per question, in the order of the questions, the answer
\* of question i being the callback's value for the key question_i; when
\* the callback raised or returned no answers, the result is an error text.
C23_AskNeverRaises ==
    tool_out.tool = "ask_user_question" =>
        /\ tool_out.how = "returned"
        /\ (invoked # <<>> /\ LastExchange.callback = "raise") =>
              IsErrorText(tool_out.text)
        /\ (invoked # <<>> /\ LastExchange.callback = "return") =>
              LET answers == LastExchange.arg.v
                  n == Len(tool_request.arg.v)
              IN  IF DOMAIN answers = {} THEN IsErrorText(tool_out.text)
                  ELSE tool_out.text = JoinLines(<<"User's answers:">> \o
                         [i \in 1..n |->
                            "\n" \o HeaderOf(tool_request.arg, i) \o ": " \o
                            (IF AnswerKey(i - 1) \in DOMAIN answers
                             THEN answers[AnswerKey(i - 1)]
                             ELSE "No answer provided")])

\* C24: plan mode becomes active only in the step in which the approval
\* callback of enter_plan_mode returns, and only when the user's answer
\* approved; the tool then returns the activation instructions.  For any
\* other answer the plan-mode state stays as it was and the tool returns
\* the decline notice.
C24_PlanModeOnlyOnApproval ==
    [][/\ (~is_in_plan_mode /\ is_in_plan_mode') =>
              (tool_pc = "on_enter_plan_mode" /\ tool_pc' = "idle")
       /\ (tool_pc = "on_enter_plan_mode" /\ tool_pc' = "idle") =>
              IF invoked'[Len(invoked')].arg.v \in {"yes", "Y", "1"}
              THEN /\ is_in_plan_mode'
                   /\ tool_out' = Returned("enter_plan_mode", ActivationText)
              ELSE /\ is_in_plan_mode' = is_in_plan_mode
                   /\ tool_out' = Returned("enter_plan_mode", DeniedText)]_vars

\* C24, witness: the user answered Y, plan mode is active and the tool
\* returned the activation instructions.
C24_Witness ==
    /\ is_in_plan_mode
    /\ tool_out = Returned("enter_plan_mode", ActivationText)
    /\ LastExchange = Invocation("process_input", JStr("Y"))

\* C25: an execution of exit_plan_mode (constructed with the host's
\* callback) while plan mode is not active returns the warning and changes
\* nothing; while plan mode is active it leaves plan mode and returns the
\* callback's result.
C25_ExitLeavesPlanMode ==
    [][(/\ executions' = executions + 1
        /\ tool_out'.tool = "exit_plan_mode"
        /\ "exit_plan_mode" \in wired) =>
          IF is_in_plan_mode
          THEN /\ ~is_in_plan_mode'
               /\ tool_out' = Returned("exit_plan_mode", ExitedText)
          ELSE /\ ~is_in_plan_mode'
               /\ tool_out' = Returned("exit_plan_mode", WarningText)
               /\ tool_pc' = tool_pc
               /\ UNCHANGED agent_vars]_vars

\* C25, witness: plan mode was entered and then left by exit_plan_mode,
\* which returned the callback's result.
C25_Witness ==
    /\ ~is_in_plan_mode
    /\ tool_out = Returned("exit_plan_mode", ExitedText)
    /\ LastExchange = Invocation("on_exit_plan_mode", PyNone)

\* a command the tool accepts: a str that begins with "/"
Accepted(command) == command.t = "str" /\ StartsWithSlash(command.v)

\* C26: an execution of slash_command (constructed with a handler) does
\* not call the handler for an empty command or one that does not begin
\* with "/"; for a command that begins with "/" it calls the handler
\* exactly once, with that command, and returns what the handler returned,
\* unchanged, for every output of the handler.
C26_HandlerOutputVerbatim ==
    (/\ tool_request.tool = "slash_command"
     /\ tool_pc = "idle"
     /\ "slash_command" \in wired) =>
        IF ~Accepted(tool_request.arg) THEN Calls("command_handler") = 0
        ELSE /\ Calls("command_handler") = 1
             /\ invoked[1] = Invocation("command_handler", tool_request.arg)
             /\ LastExchange.callback = "return" =>
                    tool_out = Returned("slash_command", LastExchange.arg.v)

\* C26, amended: as C26, except that an empty output of the handler is
\* replaced by the text "Command executed successfully (no output)", and
\* that a handler that raises gives an error text.
C26_HandlerOutputOrPlaceholder ==
    (/\ tool_request.tool = "slash_command"
     /\ tool_pc = "idle"
     /\ "slash_command" \in wired) =>
        IF ~Accepted(tool_request.arg) THEN Calls("command_handler") = 0
        ELSE /\ Calls("command_handler") = 1
             /\ invoked[1] = Invocation("command_handler", tool_request.arg)
             /\ LastExchange.callback = "return" =>
                    tool_out = Returned("slash_command",
                        IF LastExchange.arg.v # "" THEN LastExchange.arg.v
                        ELSE "Command executed successfully (no output)")
             /\ LastExchange.callback = "raise" =>
                    /\ tool_out.how = "returned"
                    /\ IsErrorText(tool_out.text)

\* C26, witness: the handler was called with /help and returned the empty
\* string; the tool returned the replacement text.
C26_Witness ==
    /\ tool_request = [tool |-> "slash_command", arg |-> JStr("/help")]
    /\ invoked = <<Invocation("command_handler", JStr("/help")),
                   Invocation("return", JStr(""))>>
    /\ tool_out = Returned("slash_command",
                           "Command executed successfully (no output)")


----------------------------------------------------------------------------
(* C31: clear_history (ClearSpec) *)

\* C31: a step between two turns that starts no turn is a clear_history:
\* it leaves the history empty and changes nothing else (registry,
\* executor, permissions, callbacks, what on_conversation_update received
\* and how often it ran); and a chat that starts on the empty history
\* hands the provider the system message and the new user message only.
C31_ClearHistoryFrame ==
    [][/\ (pc = "idle" /\ pc' = "idle" /\ turns' = turns) =>
            /\ conversation_history' = <<>>
            /\ UNCHANGED <<config_vars, updates, saved, result, outcome,
                           returns, batch_vars, stream_vars, ext_vars>>
       /\ (pc = "idle" /\ pc' = "generate" /\ conversation_history = <<>>) =>
            \E u \in UserInputs :
                OutboundMessages(conversation_history') =
                    <<Message("system", "SYSTEM_PROMPT", <<>>, None, None),
                      UserMessage(u)>>]_vars

\* C31, witness: a second chat awaits its first provider call on a history
\* that holds its user message only: the turn before it was cleared away
\* after the callback had received it.
C31_Witness ==
    /\ turns = 2
    /\ pc = "generate"
    /\ iteration = 1
    /\ start_len = 0
    /\ Len(conversation_history) = 1
    /\ on_conversation_update /\ Len(saved) >= 2


----------------------------------------------------------------------------
(* C32: failures local to one tool call (Spec) *)

\* the call of a coroutine fails locally: its tool is unknown, its
\* permission is not granted, its arguments do not decode, or tool.execute
\* raised
LocalFailure(slot) ==
    LET tool == get(tool_registry, slot.tool_call.function.name)
    IN  \/ tool = NoTool
        \/ tool.required_permission # None
              /\ ~getattr(permissions, tool.required_permission)
        \/ json_loads(slot.tool_call.function.arguments) # "value"
        \/ slot.raised

\* C32: every call of a batch that fails locally has a ToolResult with
\* is_error true and a content that starts with "Error"; the batch ends
\* with one tool-role message per call appended to the history, that of a
\* failed call carrying its error text, and with the next provider call
\* (or, at the iteration cap, the return of chat): no local failure ends
\* the chat with an exception.
C32_LocalFailuresInBand ==
    /\ [](pc = "executing" =>
            \A i \in 1..Len(slots) :
                (LocalFailure(slots[i]) /\ slots[i].state # "running") =>
                    /\ slots[i].state = "done"
                    /\ slots[i].result.is_error
                    /\ IsErrorText(slots[i].result.content))
    /\ [][(pc = "executing" /\ pc' # "executing") =>
            /\ Len(conversation_history') =
                    Len(conversation_history) + Len(slots)
            /\ \A i \in 1..Len(slots) :
                  LET m == conversation_history'[Len(conversation_history) + i]
                  IN  /\ m.role = "tool"
                      /\ m.tool_call_id = slots[i].tool_call.id
                      /\ LocalFailure(slots[i]) => IsErrorText(m.content)
            /\ \/ pc' = "generate"
               \/ iteration = max_iterations /\ outcome' = "returned"]_vars


----------------------------------------------------------------------------
(* C33: numbers and labels in the answers (InteractiveSpec) *)

\* the labels of the options of question number i of the request
LabelsOf(questions, i) ==
    LET options == Get(questions.v[i], "options", PyNone).v
    IN  [j \in 1..Len(options) |-> Get(options[j], "label", PyNone).v]

\* the line of the summary for question number i, given its answer
SummaryLine(questions, i, answer) ==
    "\n" \o HeaderOf(questions, i) \o ": " \o answer

\* the summary the tool returned, split at the questions
SummaryOf(questions, answer) ==
    JoinLines(<<"User's answers:">> \o
              [i \in 1..Len(questions.v) |->
                  SummaryLine(questions, i, answer[i])])

----------------------------------------------------------------------------
(* C34: permissions and delegation (TaskSpec) *)

\* C34: in the subagent that a task execution runs, tool.execute is
\* invoked only for tools that need no permission or whose permission flag
\* is true in the permissions of the agent that dispatched the task tool.
C34_NoEscalationThroughTask ==
    \A i \in 1..Len(slots) :
        (/\ ToolOf(slots[i]) # NoTool
         /\ ToolOf(slots[i]).required_permission # None
         /\ \E n \in 1..Len(slots[i].trail) : slots[i].trail[n] = "execute") =>
            getattr(parent.permissions, ToolOf(slots[i]).required_permission)


----------------------------------------------------------------------------
(* C35: several requests that wait for the user (WaitingSpec) *)

----------------------------------------------------------------------------
(* C36: nesting depth (TaskSpec) *)

\* C36: a call of the task tool by a subagent's model ends at the lookup
\* with the unknown-tool error result, and while the subagent chats no
\* provider and no agent is built: one task execution builds at most one
\* provider and one agent, the direct child of the agent that called it.
C36_SubagentsDoNotNest ==
    /\ [](kind \in SubagentKinds =>
            \A i \in 1..Len(slots) :
                slots[i].tool_call.function.name = "task" =>
                    /\ slots[i].state = "done"
                    /\ slots[i].trail = <<"lookup">>
                    /\ slots[i].result =
                            ToolResult(slots[i].tool_call.id, "task",
                                       "Error: Unknown tool", TRUE))
    /\ [](providers_built <= 1 /\ subagents_built <= 1)
    /\ [][task_pc = "chatting" =>
            /\ providers_built' = providers_built
            /\ subagents_built' = subagents_built]_vars

\* C36, witness: an explore subagent's model asked for the task tool, the
\* call was refused, and execute returned with one provider and one agent
\* built.
C36_Witness ==
    /\ kind = "explore"
    /\ task_pc = "returned"
    /\ providers_built = 1
    /\ subagents_built = 1
    /\ \E i \in 1..Len(slots) :
            /\ slots[i].tool_call.function.name = "task"
            /\ slots[i].result.content = "Error: Unknown tool"


----------------------------------------------------------------------------
(* C37: a task execution terminates (CapSpec) *)

\* C37: when every provider call and every tool execution returns, the
\* subagent makes at most 5 provider calls for explore and at most 15 for
\* plan, whatever its model answers, and once the subagent chats execute
\* eventually returns the result of the subagent's chat.
C37_TaskExecutionTerminates ==
    /\ [](kind = "explore" => provider_calls <= 5)
    /\ [](kind = "plan" => provider_calls <= 15)
    /\ (task_pc = "chatting")
            ~> (/\ task_pc = "returned"
                /\ outcome = "returned"
                /\ task_result = result)

\* the bound of C37 alone, and that execute ends
C37_CallsBoundedAndExecuteEnds ==
    /\ [](kind = "explore" => provider_calls <= 5)
    /\ [](kind = "plan" => provider_calls <= 15)
    /\ (task_pc = "chatting") ~> (task_pc = "returned")

\* a plan subagent whose model asked for a tool in every turn: 15 provider
\* calls, and execute returned the degraded result
C37_CapReached ==
    /\ kind = "plan"
    /\ provider_calls = 15
    /\ task_pc = "returned"
    /\ task_result = "a.txt b.txt"


----------------------------------------------------------------------------
(* C38: a provider failure and the history (Spec) *)

\* the step in which a provider call of chat or stream_chat fails
ProviderFails ==
    /\ pc \in {"generate", "streaming"}
    /\ pc' = "idle"
    /\ outcome' = "raised"
    /\ raise_cause' = "provider"

\* C38: the step in which a provider call fails changes neither the
\* history nor what on_conversation_update received; after it the history
\* still holds the invocation's user message and what the invocation
\* appended since, and ends with no assistant message for the failed call;
\* and on_conversation_update is invoked by no step of an invocation other
\* than the one in which it returns, so that it was invoked as many times
\* as invocations returned.
C38_FailureKeepsHistory ==
    /\ [][ProviderFails =>
            /\ conversation_history' = conversation_history
            /\ updates' = updates
            /\ saved' = saved]_vars
    /\ []((pc = "idle" /\ outcome = "raised" /\ raise_cause = "provider") =>
            /\ Len(conversation_history) > start_len
            /\ conversation_history[start_len + 1].role = "user"
            /\ Last(conversation_history).role \in {"user", "tool"})
    /\ [][(updates' # updates \/ saved' # saved) =>
            (pc' = "idle" /\ outcome' \in {"returned", "streamed"}
                /\ returns' = returns + 1)]_vars
    /\ [](updates = IF on_conversation_update THEN returns ELSE 0)

\* C38, witness: a first chat returned and was handed to
\* on_conversation_update; the provider call of the second chat failed, and
\* the history ends with the second user message.
C38_Witness ==
    /\ turns = 2
    /\ outcome = "raised"
    /\ raise_cause = "provider"
    /\ on_conversation_update
    /\ updates = 1
    /\ start_len >= 2
    /\ Len(conversation_history) = start_len + 1
    /\ Last(conversation_history).role = "user"


----------------------------------------------------------------------------
(* C39: permissions swapped between turns (SettingsSpec) *)

\* the step that handles the line /verb word
Handles(verb, word) ==
    /\ Len(lines') = Len(lines) + 1
    /\ lines'[Len(lines')] = [text |-> CommandLine(verb, word),
                              to |-> "command"]

\* C39: /enable and /disable of a flag, handled between two turns, leave
\* the agent, its registry and its history as they are and set the flag in
\* the executor's permissions to true and to false, the other two flags
\* staying as they were; and a dispatch invokes tool.execute for a tool
\* that requires a flag exactly when the flag is true in the executor's
\* permissions.
C39_PermissionsSwappedBetweenTurns ==
    /\ [][\A verb \in {"enable", "disable"}, word \in DOMAIN permission_map :
            Handles(verb, word) =>
                /\ permissions'[permission_map[word]] = (verb = "enable")
                /\ \A flag \in DOMAIN permissions \ {permission_map[word]} :
                        permissions'[flag] = permissions[flag]
                /\ UNCHANGED <<kind, tool_registry, has_executor,
                               conversation_history>>]_vars
    /\ [](pc = "executing" =>
            \A i \in 1..Len(slots) :
                ToolOf(slots[i]).required_permission # None =>
                    ((\E n \in 1..Len(slots[i].trail) :
                            slots[i].trail[n] = "execute")
                        <=> permissions[ToolOf(slots[i]).required_permission]))

============================================================================
